---- MODULE Spec2Model ----
(***************************************************************************)
(* rockpiler: the two lowering passes of a small C-like compiler.          *)
(*                                                                         *)
(*   ir_builder.rs   AST -> IR   (Builder)                                 *)
(*   mc_builder.rs   IR  -> MC   (McBuilder)                               *)
(*                                                                         *)
(* The IR builder is a recursive descent over the AST.  Each handler is an *)
(* operator that takes the Builder (a record of its fields) and returns    *)
(* the Builder it leaves behind; a panic is recorded in the field          *)
(* "failure" and every later operation leaves the Builder as it is.        *)
(* SpecIR draws a translation unit declaration by declaration and applies  *)
(* build_global_variable / build_function to it.                           *)
(***************************************************************************)
EXTENDS Integers, Sequences, FiniteSets, TLC

VARIABLES
    \* ---- ir_builder.rs: Builder { module, loop_stack } --------------------
    values,            \* module.values: the value arena, ValueId = index
    functions,         \* module.functions: ids of the Function values, in insertion order
    global_variables,  \* module.global_variables: ids of the GlobalVariable values
    sym2def,           \* module.sym2def: symbol id -> ValueId
    cur_func,          \* module insertion point: current function (0: none)
    cur_bb,            \* module insertion point: current block (0: none)
    loop_stack,        \* Builder.loop_stack: <<break target, continue target>>
    failure,           \* "none", or the panic that ended the run
    syms,              \* module.syms: the symbols the semantic analyser has numbered
    log,               \* what each break / continue / declaration handler did
    ast,               \* the declarations of the translation unit lowered so far
    nodes,             \* the AST nodes of those declarations
    pc,                \* build_module: "globals", "functions", "done"
    \* ---- mc_builder.rs: McBuilder; its ir_module is (values, functions) ----
    asm_values,        \* module (AsmModule): the arena alloc_value fills
    globals,           \* module.globals
    bss_globals,       \* module.bss_globals
    asm_bbs,           \* module.cur_func().bbs: the AsmBlocks, in layout order
    bb_map,            \* ir bb -> asm bb (index into asm_bbs)
    vreg_map,          \* ir value -> vreg
    vreg_idx,          \* the next virtual register index
    mc_log,            \* what visit_phis and make_parallel_movs were given and did
    mc_pc              \* build_function: stage, block and instruction reached

irvars == <<values, functions, global_variables, sym2def, cur_func, cur_bb,
            loop_stack, failure, syms, log, ast, nodes, pc>>

mcvars == <<asm_values, globals, bss_globals,
            asm_bbs, bb_map, vreg_map, vreg_idx, mc_log, mc_pc>>

vars == <<irvars, mcvars>>

(***************************************************************************)
(* Bounds.                                                                 *)
(***************************************************************************)
\* AST nodes of one translation unit: a global, a function, a parameter and a
\* statement count one each.
MaxNodes == 4

None == <<>>
Some(x) == <<x>>

Last(s) == s[Len(s)]
Front(s) == SubSeq(s, 1, Len(s) - 1)

(***************************************************************************)
(* IR values (ir.rs).  Every value of the arena is a record                *)
(*   kind  : "Const" | "GlobalVariable" | "Variable" | "BasicBlock"        *)
(*           | "Function" | "Inst"                                         *)
(*   op    : the instruction ("Alloca", "Load", "Store", "BinOp", "Jump",  *)
(*           "Branch", "Return", ...), "" for the other kinds              *)
(*   opnds : operands (ValueIds): Store <<addr, val>>, Jump <<bb>>,        *)
(*           Branch <<cond, true_bb, false_bb>>, Return <<>> or <<val>>;   *)
(*           a Function's parameters; a GlobalVariable's initializer       *)
(*   body  : a BasicBlock's instruction ids; a Function's block ids        *)
(*   tag   : the binary operator of a BinOp, "external" for a function     *)
(*           without a body, "" otherwise                                  *)
(***************************************************************************)
Value(kind, op, opnds, body, tag) ==
    [kind |-> kind, op |-> op, opnds |-> opnds, body |-> body, tag |-> tag]

InstValue(op, opnds, tag) == Value("Inst", op, opnds, <<>>, tag)
BasicBlockValue == Value("BasicBlock", "", <<>>, <<>>, "")

IsInst(v, op) == v.kind = "Inst" /\ v.op = op
\* InstValue::is_term
IsTerm(v) == v.kind = "Inst" /\ v.op \in {"Jump", "Branch", "Return"}

(***************************************************************************)
(* The Builder as a value: its fields, the id the last call returned       *)
(* (ret), the loop handlers that are active on the call stack with the     *)
(* blocks they hold in their locals (frames), and the number of symbols    *)
(* the semantic analyser has handed out so far (syms).                     *)
(***************************************************************************)
Failed(b) == b.failure # "none"
Panic(b, why) == IF Failed(b) THEN b ELSE [b EXCEPT !.failure = why]

\* Module::alloc_value
AllocValue(b, v) ==
    IF Failed(b) THEN b
    ELSE [b EXCEPT !.values = Append(@, v), !.ret = Len(b.values) + 1]

\* Module::alloc_basic_block: a block with an id of its own, in no function yet
AllocBasicBlock(b) == AllocValue(b, BasicBlockValue)

\* BasicBlockList::append on the current function
AppendBb(b, bb) ==
    IF Failed(b) THEN b
    ELSE [b EXCEPT !.values[b.cur_func].body = Append(@, bb)]

\* Module::spawn_basic_block: a new block appended to the current function;
\* the insertion point stays where it is
SpawnBasicBlock(b) ==
    LET b1 == AllocBasicBlock(b)
    IN  IF Failed(b1) THEN b1 ELSE AppendBb(b1, b1.ret)

\* Module::set_insert_point
SetInsertPoint(b, bb) == IF Failed(b) THEN b ELSE [b EXCEPT !.cur_bb = bb]

\* Module::set_cur_func
SetCurFunc(b, f) == IF Failed(b) THEN b ELSE [b EXCEPT !.cur_func = f]

\* Module::spawn_*_inst: the instruction is allocated and appended to the
\* block at the insertion point; its id is returned
SpawnInst(b, inst) ==
    LET b1 == AllocValue(b, inst)
    IN  IF Failed(b1) THEN b1
        ELSE [b1 EXCEPT !.values[b.cur_bb].body = Append(@, b1.ret)]

\* Module::spawn_alloca_inst: the Alloca goes to the head of the entry block
\* of the current function, whatever the insertion point is
SpawnAllocaInst(b) ==
    LET b1 == AllocValue(b, InstValue("Alloca", <<>>, ""))
        entry == b.values[b.cur_func].body[1]
    IN  IF Failed(b1) THEN b1
        ELSE [b1 EXCEPT !.values[entry].body = <<b1.ret>> \o @]

SpawnStoreInst(b, addr, val) == SpawnInst(b, InstValue("Store", <<addr, val>>, ""))
SpawnLoadInst(b, addr) == SpawnInst(b, InstValue("Load", <<addr>>, ""))
SpawnBinopInst(b, op, lhs, rhs) == SpawnInst(b, InstValue("BinOp", <<lhs, rhs>>, op))
\* Module::spawn_gep_inst: opnds are the base pointer, then the indices
SpawnGepInst(b, ptr, indices) == SpawnInst(b, InstValue("Gep", <<ptr>> \o indices, ""))
SpawnJumpInst(b, bb) == SpawnInst(b, InstValue("Jump", <<bb>>, ""))
SpawnBrInst(b, cond, true_bb, false_bb) ==
    SpawnInst(b, InstValue("Branch", <<cond, true_bb, false_bb>>, ""))
SpawnReturnInst(b, value) == SpawnInst(b, InstValue("Return", value, ""))

\* HashMap::insert on module.sym2def
Sym2DefInsert(b, symbol_id, id) ==
    IF Failed(b) THEN b
    ELSE [b EXCEPT !.sym2def =
            [s \in DOMAIN b.sym2def \cup {symbol_id} |->
                IF s = symbol_id THEN id ELSE b.sym2def[s]]]

\* The semantic analyser numbers the declarations in the order they are met;
\* this is the symbol_id the sema_ref of the next declaration carries.
NextSymbol(b) == b.syms + 1
TakeSymbol(b) == IF Failed(b) THEN b ELSE [b EXCEPT !.syms = @ + 1]

\* One entry of the log: the handler, the Builder fields before and after it.
Event(ev, before, after, sym) ==
    [ev |-> ev,
     loop_stack |-> before.loop_stack,
     loop_stack_after |-> after.loop_stack,
     frames |-> before.frames,
     cur_bb |-> before.cur_bb,
     cur_bb_after |-> after.cur_bb,
     cur_func |-> before.cur_func,
     values_before |-> Len(before.values),
     values_after |-> Len(after.values),
     failure |-> after.failure,
     sym |-> sym,
     ret |-> after.ret]

Logged(ev, before, after, sym) ==
    IF Failed(before) THEN before
    ELSE [after EXCEPT !.log = Append(@, Event(ev, before, after, sym))]

\* The entry of an if, while or for statement also holds the statement.
LoggedStmt(ev, before, after, stmt) ==
    IF Failed(before) THEN before
    ELSE [after EXCEPT !.log = Append(@, Event(ev, before, after, 0) @@ [stmt |-> stmt])]

(***************************************************************************)
(* The AST (ast.rs), as far as the builder reads it.                       *)
(*   Expr: [e |-> "Literal"], [e |-> "Ident", symbol_id |-> n],            *)
(*         [e |-> "Infix", op |-> o, lhs |-> e1, rhs |-> e2]               *)
(*   Stmt: [s |-> "Break"], [s |-> "Continue"],                            *)
(*         [s |-> "Return", expr |-> opt], [s |-> "Expr", expr |-> opt],   *)
(*         [s |-> "VarDecls", decls |-> seq of [init |-> opt]],            *)
(*         [s |-> "IfElse", cond, then_stmt, else_stmt |-> opt],           *)
(*         [s |-> "While", cond, body],                                    *)
(*         [s |-> "For", init |-> opt, cond |-> opt, update |-> opt, body],*)
(*         [s |-> "Block", stmts |-> seq]                                  *)
(* An optional part is None or Some(x).                                    *)
(***************************************************************************)
Literal == [e |-> "Literal"]
Ident(symbol_id) == [e |-> "Ident", symbol_id |-> symbol_id]
Infix(op, lhs, rhs) == [e |-> "Infix", op |-> op, lhs |-> lhs, rhs |-> rhs]
\* Literal::Int with its value, where the value is looked at
IntLiteral(int) == [e |-> "IntLiteral", value |-> int]

\* Type: int, and ArrayType::Constant {size, element_type}
IntTy == [t |-> "Int"]
ArrayTy(size, element_type) ==
    [t |-> "Array", size |-> size, element_type |-> element_type]

\* InitVal::Expr and InitVal::Array (the items of the braced list)
InitValExpr(expr) == [iv |-> "Expr", expr |-> expr]
InitValArray(items) == [iv |-> "Array", items |-> items]

RECURSIVE BuildExpr(_, _, _)
RECURSIVE VisitCondExpr(_, _, _, _)
RECURSIVE BuildStatement(_, _)
RECURSIVE BuildStatements(_, _)

\* Builder::build_literal
BuildLiteral(b) == AllocValue(b, Value("Const", "", <<>>, <<>>, ""))
\* Builder::build_literal on Literal::Int: a ConstInt; its value is kept in opnds
BuildIntLiteral(b, int) == AllocValue(b, Value("Const", "", <<int>>, <<>>, ""))
\* Builder::build_i32_val
BuildI32Val(b, val) == AllocValue(b, Value("Const", "", <<val>>, <<>>, ""))

\* Builder::build_expr; is_lval: the caller wants the address, no Load
BuildExpr(b, expr, is_lval) ==
    IF Failed(b) THEN b
    ELSE CASE expr.e = "Infix" ->
                LET is_assign == expr.op = "Assign"
                    b1 == BuildExpr(b, expr.lhs, is_assign)
                    lhs == b1.ret
                    b2 == BuildExpr(b1, expr.rhs, FALSE)
                    rhs == b2.ret
                IN  IF is_assign THEN SpawnStoreInst(b2, lhs, rhs)
                    ELSE SpawnBinopInst(b2, expr.op, lhs, rhs)
           [] expr.e = "Ident" ->
                IF expr.symbol_id \notin DOMAIN b.sym2def
                THEN Panic(b, "missing symbol definition")
                ELSE LET var_val_id == b.sym2def[expr.symbol_id]
                     IN  IF is_lval THEN [b EXCEPT !.ret = var_val_id]
                         ELSE SpawnLoadInst(b, var_val_id)
           [] expr.e = "Literal" -> BuildLiteral(b)
           [] expr.e = "IntLiteral" -> BuildIntLiteral(b, expr.value)
           [] OTHER -> Panic(b, "not yet implemented")

\* visit_cond_expr, had it handed || the targets of &&
VisitCondExprOrLikeAnd(b, cond_expr, true_bb, false_bb) ==
    IF Failed(b) THEN b
    ELSE IF cond_expr.e = "Infix" /\ cond_expr.op \in {"LogicAnd", "LogicOr"}
    THEN LET b1 == SpawnBasicBlock(b)
             b2 == VisitCondExpr(b1, cond_expr.lhs, b1.ret, false_bb)
         IN  VisitCondExpr(SetInsertPoint(b2, b1.ret), cond_expr.rhs, true_bb, false_bb)
    ELSE LET b1 == BuildExpr(b, cond_expr, FALSE)
         IN  SpawnBrInst(b1, b1.ret, true_bb, false_bb)

\* Builder::visit_cond_expr
VisitCondExpr(b, cond_expr, true_bb, false_bb) ==
    IF Failed(b) THEN b
    ELSE LET is_short_circuit_eval ==
                 cond_expr.e = "Infix" /\ cond_expr.op \in {"LogicAnd", "LogicOr"}
         IN  IF is_short_circuit_eval
             THEN LET b1 == SpawnBasicBlock(b)
                      next_bb == b1.ret
                      b2 == IF cond_expr.op = "LogicAnd"
                            THEN VisitCondExpr(b1, cond_expr.lhs, next_bb, false_bb)
                            ELSE VisitCondExpr(b1, cond_expr.lhs, true_bb, next_bb)
                      b3 == SetInsertPoint(b2, next_bb)
                  IN  VisitCondExpr(b3, cond_expr.rhs, true_bb, false_bb)
             ELSE LET b1 == BuildExpr(b, cond_expr, FALSE)
                      cond_value == b1.ret
                  IN  SpawnBrInst(b1, cond_value, true_bb, false_bb)

\* Builder::build_init_val
BuildInitVal(b, init_val) ==
    IF Failed(b) THEN b
    ELSE IF init_val.iv = "Expr" THEN BuildExpr(b, init_val.expr, FALSE)
    ELSE Panic(b, "unreachable")

RECURSIVE BuildArrayInitVal(_, _, _, _)
RECURSIVE ArrayElemsRestart(_, _, _, _, _, _)
RECURSIVE ArrayElems(_, _, _, _, _, _)
RECURSIVE ScalarElems(_, _, _, _, _, _)

\* build_array_init_val, had the loop over array elements handed each run of
\* flat items a deque of its own: the items a row took stay in front
ArrayElemsRestart(b, ptr, deque, type_, i32_zero_id, i) ==
    IF Failed(b) \/ i >= type_.size THEN [b |-> b, deque |-> deque]
    ELSE LET b1 == BuildI32Val(b, i)
             i32_i_id == b1.ret
             const_at == type_.element_type
         IN  IF deque = <<>>
             THEN ArrayElemsRestart(b1, ptr, deque, type_, i32_zero_id, i + 1)
             ELSE LET iv == Head(deque)
                      b2 == SpawnGepInst(b1, ptr, <<i32_zero_id, i32_i_id>>)
                      gep_id == b2.ret
                      r == IF iv.iv = "Array"
                           THEN [b |-> BuildArrayInitVal(b2, gep_id, iv.items, const_at).b,
                                 deque |-> Tail(deque)]
                           ELSE [b |-> BuildArrayInitVal(b2, gep_id, deque, const_at).b,
                                 deque |-> deque]
                  IN  ArrayElemsRestart(r.b, ptr, r.deque, type_, i32_zero_id, i + 1)

\* Builder::build_array_init_val, the loop over the elements of an array of
\* arrays, from element i on.  The result is the Builder and what is left of
\* the deque, which the callee shares with its caller (&mut).
ArrayElems(b, ptr, deque, type_, i32_zero_id, i) ==
    IF Failed(b) \/ i >= type_.size THEN [b |-> b, deque |-> deque]
    ELSE LET b1 == BuildI32Val(b, i)
             i32_i_id == b1.ret
             const_at == type_.element_type
         IN  IF deque = <<>>
             THEN ArrayElems(b1, ptr, deque, type_, i32_zero_id, i + 1)
             ELSE LET iv == Head(deque)
                      b2 == SpawnGepInst(b1, ptr, <<i32_zero_id, i32_i_id>>)
                      gep_id == b2.ret
                      r == IF iv.iv = "Array"
                           THEN \* deque.pop_front(); the nested list is a deque of its own
                                [b |-> BuildArrayInitVal(b2, gep_id, iv.items, const_at).b,
                                 deque |-> Tail(deque)]
                           ELSE BuildArrayInitVal(b2, gep_id, deque, const_at)
                  IN  ArrayElems(r.b, ptr, r.deque, type_, i32_zero_id, i + 1)

\* Builder::build_array_init_val, the loop over the elements of an array of
\* scalars, from element i on
ScalarElems(b, ptr, deque, type_, i32_zero_id, i) ==
    IF Failed(b) \/ i >= type_.size THEN [b |-> b, deque |-> deque]
    ELSE LET b1 == BuildI32Val(b, i)
             i32_i_id == b1.ret
         IN  IF deque = <<>>
             THEN ScalarElems(b1, ptr, deque, type_, i32_zero_id, i + 1)
             ELSE LET iv == Head(deque)
                      b2 == BuildInitVal(b1, iv)
                      init_val == b2.ret
                      b3 == SpawnGepInst(b2, ptr, <<i32_zero_id, i32_i_id>>)
                      gep_id == b3.ret
                      b4 == SpawnStoreInst(b3, gep_id, init_val)
                  IN  ScalarElems(b4, ptr, Tail(deque), type_, i32_zero_id, i + 1)

\* Builder::build_array_init_val
BuildArrayInitVal(b, ptr, deque, type_) ==
    IF Failed(b) THEN [b |-> b, deque |-> deque]
    ELSE LET b0 == BuildI32Val(b, 0)
             i32_zero_id == b0.ret
         IN  IF type_.element_type.t = "Array"
             THEN ArrayElems(b0, ptr, deque, type_, i32_zero_id, 0)
             ELSE ScalarElems(b0, ptr, deque, type_, i32_zero_id, 0)

\* Builder::build_break_statement
BuildBreakStatement(b) ==
    IF Failed(b) THEN b
    ELSE IF b.loop_stack = <<>> THEN Panic(b, "break statement not in loop")
    ELSE LET break_bb == Last(b.loop_stack)[1]
         IN  SpawnJumpInst(b, break_bb)

\* build_continue_statement, had it read the break target of the top entry
BuildContinueStatementToBreakTarget(b) ==
    IF Failed(b) THEN b
    ELSE IF b.loop_stack = <<>> THEN Panic(b, "continue statement not in loop")
    ELSE SpawnJumpInst(b, Last(b.loop_stack)[1])

\* Builder::build_continue_statement
BuildContinueStatement(b) ==
    IF Failed(b) THEN b
    ELSE IF b.loop_stack = <<>> THEN Panic(b, "continue statement not in loop")
    ELSE LET cont_bb == Last(b.loop_stack)[2]
         IN  SpawnJumpInst(b, cont_bb)

\* Builder::build_return_statement
BuildReturnStatement(b, return_stmt) ==
    IF Failed(b) THEN b
    ELSE IF return_stmt.expr = None THEN SpawnReturnInst(b, <<>>)
    ELSE LET b1 == BuildExpr(b, return_stmt.expr[1], FALSE)
         IN  SpawnReturnInst(b1, <<b1.ret>>)

\* Builder::build_expression_statement
BuildExpressionStatement(b, expr_stmt) ==
    IF Failed(b) \/ expr_stmt.expr = None THEN b
    ELSE BuildExpr(b, expr_stmt.expr[1], FALSE)

\* build_var_decls_statement, had it put the Alloca at the insertion point
BuildVarDeclAtInsertPoint(b, decl) ==
    IF Failed(b) THEN b
    ELSE LET symbol_id == NextSymbol(b)
             b1 == SpawnInst(TakeSymbol(b), InstValue("Alloca", <<>>, ""))
             alloca_id == b1.ret
             b2 == IF decl.init = None THEN b1
                   ELSE IF decl.type_.t = "Array"
                   THEN IF decl.init[1].iv = "Array"
                        THEN BuildArrayInitVal(b1, alloca_id, decl.init[1].items,
                                               decl.type_).b
                        ELSE b1
                   ELSE LET b3 == BuildInitVal(b1, decl.init[1])
                        IN  SpawnStoreInst(b3, alloca_id, b3.ret)
             b4 == Sym2DefInsert(b2, symbol_id, alloca_id)
         IN  IF Failed(b4) THEN b4 ELSE [b4 EXCEPT !.ret = alloca_id]

\* Builder::build_var_decls_statement, one declaration of the list
BuildVarDecl(b, decl) ==
    IF Failed(b) THEN b
    ELSE LET symbol_id == NextSymbol(b)
             b1 == SpawnAllocaInst(TakeSymbol(b))
             alloca_id == b1.ret
             b2 == IF decl.init = None THEN b1
                   ELSE IF decl.type_.t = "Array"
                   THEN IF decl.init[1].iv = "Array"
                        THEN BuildArrayInitVal(b1, alloca_id, decl.init[1].items,
                                               decl.type_).b
                        ELSE b1
                   ELSE LET b3 == BuildInitVal(b1, decl.init[1])
                        IN  SpawnStoreInst(b3, alloca_id, b3.ret)
             b4 == Sym2DefInsert(b2, symbol_id, alloca_id)
         IN  IF Failed(b4) THEN b4 ELSE [b4 EXCEPT !.ret = alloca_id]

RECURSIVE BuildVarDecls(_, _)
BuildVarDecls(b, decls) ==
    IF decls = <<>> \/ Failed(b) THEN b
    ELSE LET b1 == BuildVarDecl(b, Head(decls))
         IN  BuildVarDecls(Logged("VarDecl", b, b1, NextSymbol(b)), Tail(decls))

BuildVarDeclsStatement(b, var_decls_stmt) == BuildVarDecls(b, var_decls_stmt.decls)

\* The loop handlers on the call stack: build_while_statement and
\* build_for_statement hold the blocks of their loop in locals while the
\* body is lowered.
PushFrame(b, kind, cond_bb, body_bb, end_bb) ==
    IF Failed(b) THEN b
    ELSE [b EXCEPT !.frames = Append(@,
            [kind |-> kind, cond_bb |-> cond_bb, body_bb |-> body_bb, end_bb |-> end_bb])]
PopFrame(b) == IF Failed(b) THEN b ELSE [b EXCEPT !.frames = Front(@)]

\* Vec::push / Vec::pop on loop_stack
PushLoop(b, break_bb, cont_bb) ==
    IF Failed(b) THEN b ELSE [b EXCEPT !.loop_stack = Append(@, <<break_bb, cont_bb>>)]
PopLoop(b) ==
    IF Failed(b) THEN b ELSE [b EXCEPT !.loop_stack = Front(@)]

\* build_if_statement, had it left the exit block out of the function's list
BuildIfStatementExitNotAppended(b, if_stmt) ==
    LET has_else == if_stmt.else_stmt # None
        b1 == SpawnBasicBlock(b)
        true_bb == b1.ret
        b2 == AllocBasicBlock(b1)
        exit_bb == b2.ret
        b3 == IF has_else THEN SpawnBasicBlock(b2) ELSE b2
        false_bb == IF has_else THEN b3.ret ELSE exit_bb
        b4 == VisitCondExpr(b3, if_stmt.cond, true_bb, false_bb)
        b5 == BuildStatement(SetInsertPoint(b4, true_bb), if_stmt.then_stmt)
        b6 == SpawnJumpInst(b5, exit_bb)
        b7 == IF has_else
              THEN SpawnJumpInst(
                       BuildStatement(SetInsertPoint(b6, false_bb), if_stmt.else_stmt[1]),
                       exit_bb)
              ELSE b6
    IN  SetInsertPoint(b7, exit_bb)

\* Builder::build_if_statement
BuildIfStatement(b, if_stmt) ==
    LET has_else == if_stmt.else_stmt # None
        b1 == SpawnBasicBlock(b)
        true_bb == b1.ret
        b2 == AllocBasicBlock(b1)
        exit_bb == b2.ret
        b3 == IF has_else THEN SpawnBasicBlock(b2) ELSE b2
        false_bb == IF has_else THEN b3.ret ELSE exit_bb
        b4 == VisitCondExpr(b3, if_stmt.cond, true_bb, false_bb)
        b5 == BuildStatement(SetInsertPoint(b4, true_bb), if_stmt.then_stmt)
        b6 == SpawnJumpInst(b5, exit_bb)
        b7 == IF has_else
              THEN SpawnJumpInst(
                       BuildStatement(SetInsertPoint(b6, false_bb), if_stmt.else_stmt[1]),
                       exit_bb)
              ELSE b6
    IN  SetInsertPoint(AppendBb(b7, exit_bb), exit_bb)

\* Builder::build_while_statement
BuildWhileStatement(b, while_stmt) ==
    LET b1 == SpawnBasicBlock(b)
        cond_bb == b1.ret
        b2 == SpawnBasicBlock(b1)
        body_bb == b2.ret
        b3 == AllocBasicBlock(b2)
        end_bb == b3.ret
        b4 == PushLoop(b3, end_bb, cond_bb)
        b5 == BuildExpr(SetInsertPoint(b4, cond_bb), while_stmt.cond, FALSE)
        cond_value == b5.ret
        b6 == SpawnBrInst(b5, cond_value, body_bb, end_bb)
        b7 == BuildStatement(
                  PushFrame(SetInsertPoint(b6, body_bb), "While", cond_bb, body_bb, end_bb),
                  while_stmt.body)
        b8 == SpawnJumpInst(PopFrame(b7), cond_bb)
        b9 == SetInsertPoint(AppendBb(b8, end_bb), end_bb)
    IN  PopLoop(b9)

\* Builder::build_for_statement
BuildForStatement(b, for_stmt) ==
    LET b1 == IF for_stmt.init = None THEN b ELSE BuildExpr(b, for_stmt.init[1], FALSE)
        b2 == SpawnBasicBlock(b1)
        cond_bb == b2.ret
        b3 == SpawnBasicBlock(b2)
        body_bb == b3.ret
        b4 == SpawnBasicBlock(b3)
        end_bb == b4.ret
        b5 == SetInsertPoint(b4, cond_bb)
        b6 == IF for_stmt.cond = None THEN SpawnJumpInst(b5, body_bb)
              ELSE LET b7 == BuildExpr(b5, for_stmt.cond[1], FALSE)
                   IN  SpawnBrInst(b7, b7.ret, body_bb, end_bb)
        b8 == BuildStatement(
                  PushFrame(SetInsertPoint(b6, body_bb), "For", cond_bb, body_bb, end_bb),
                  for_stmt.body)
        b9 == PopFrame(b8)
        b10 == IF for_stmt.update = None THEN b9
               ELSE BuildExpr(b9, for_stmt.update[1], FALSE)
    IN  SpawnJumpInst(b10, cond_bb)

\* Builder::build_block_statement
BuildBlockStatement(b, block_stmt) == BuildStatements(b, block_stmt.stmts)

BuildStatements(b, stmts) ==
    IF stmts = <<>> \/ Failed(b) THEN b
    ELSE BuildStatements(BuildStatement(b, Head(stmts)), Tail(stmts))

\* Builder::build_statement
BuildStatement(b, stmt) ==
    IF Failed(b) THEN b
    ELSE CASE stmt.s = "IfElse" -> LoggedStmt("IfElse", b, BuildIfStatement(b, stmt), stmt)
           [] stmt.s = "While" -> LoggedStmt("While", b, BuildWhileStatement(b, stmt), stmt)
           [] stmt.s = "For" -> LoggedStmt("For", b, BuildForStatement(b, stmt), stmt)
           [] stmt.s = "Return" -> BuildReturnStatement(b, stmt)
           [] stmt.s = "Expr" -> BuildExpressionStatement(b, stmt)
           [] stmt.s = "VarDecls" -> BuildVarDeclsStatement(b, stmt)
           [] stmt.s = "Block" -> BuildBlockStatement(b, stmt)
           [] stmt.s = "Break" -> Logged("Break", b, BuildBreakStatement(b), 0)
           [] stmt.s = "Continue" -> Logged("Continue", b, BuildContinueStatement(b), 0)
           [] OTHER -> Panic(b, "not yet implemented")

\* Builder::build_global_variable
BuildGlobalVariable(b, var_decl) ==
    LET symbol_id == NextSymbol(b)
        b0 == TakeSymbol(b)
        b1 == IF var_decl.init = None THEN b0 ELSE BuildInitVal(b0, var_decl.init[1])
        initializer == IF var_decl.init = None THEN <<>> ELSE <<b1.ret>>
        b2 == AllocValue(b1, Value("GlobalVariable", "", initializer, <<>>, ""))
        global_var_id == b2.ret
        b3 == IF Failed(b2) THEN b2
              ELSE [b2 EXCEPT !.global_variables = Append(@, global_var_id)]
    IN  Sym2DefInsert(b3, symbol_id, global_var_id)

\* Builder::build_function, the first loop: one VariableValue per parameter
RECURSIVE AllocParams(_, _, _)
AllocParams(b, n, params) ==
    IF n = 0 \/ Failed(b) THEN [b EXCEPT !.ret = params]
    ELSE LET b1 == AllocValue(b, Value("Variable", "", <<>>, <<>>, ""))
         IN  AllocParams(b1, n - 1, Append(params, b1.ret))

\* the second loop of build_function, had it recorded the parameter value itself
\* as the definition of the parameter's symbol
RECURSIVE StoreParamsByValue(_, _)
StoreParamsByValue(b, index) ==
    IF Failed(b) \/ index > Len(b.values[b.cur_func].opnds) THEN b
    ELSE LET symbol_id == NextSymbol(b)
             b1 == SpawnAllocaInst(TakeSymbol(b))
             alloca_id == b1.ret
             param_value == b.values[b.cur_func].opnds[index]
             b2 == Sym2DefInsert(b1, symbol_id, param_value)
             b3 == SpawnStoreInst(b2, alloca_id, param_value)
         IN  StoreParamsByValue(b3, index + 1)

\* Builder::build_function, the second loop: Alloca, sym2def, Store per parameter
RECURSIVE StoreParams(_, _)
StoreParams(b, index) ==
    IF Failed(b) \/ index > Len(b.values[b.cur_func].opnds) THEN b
    ELSE LET symbol_id == NextSymbol(b)
             b1 == SpawnAllocaInst(TakeSymbol(b))
             alloca_id == b1.ret
             b2 == Sym2DefInsert(b1, symbol_id, alloca_id)
             param_value == b.values[b.cur_func].opnds[index]
             b3 == SpawnStoreInst(b2, alloca_id, param_value)
         IN  StoreParams(b3, index + 1)

\* Builder::build_function
BuildFunction(b, func_decl) ==
    LET is_external == func_decl.body = None
        b1 == AllocParams(b, func_decl.params, <<>>)
        params == b1.ret
        b2 == IF is_external THEN b1 ELSE AllocBasicBlock(b1)
        entry_bb_id == b2.ret
        bbs == IF is_external THEN <<>> ELSE <<entry_bb_id>>
        b3 == IF is_external THEN b2 ELSE SetInsertPoint(b2, entry_bb_id)
        b4 == AllocValue(b3, Value("Function", "", params, bbs,
                                   IF is_external THEN "external" ELSE ""))
        function_id == b4.ret
        b5 == IF Failed(b4) THEN b4
              ELSE [b4 EXCEPT !.functions = Append(@, function_id)]
        b6 == SetCurFunc(b5, function_id)
    IN  IF is_external THEN b6
        ELSE BuildStatements(StoreParams(b6, 1), func_decl.body[1])

(***************************************************************************)
(* The inputs: every translation unit of at most MaxNodes nodes.           *)
(***************************************************************************)
MaxParams == 1

CondExprs ==
    {Literal, Infix("LogicAnd", Literal, Literal), Infix("LogicOr", Literal, Literal)}

LeafStmts ==
    {[s |-> "Break"], [s |-> "Continue"],
     [s |-> "Return", expr |-> None], [s |-> "Return", expr |-> Some(Literal)],
     [s |-> "Expr", expr |-> Some(Literal)],
     [s |-> "VarDecls", decls |-> <<[type_ |-> IntTy, init |-> None]>>],
     [s |-> "VarDecls",
      decls |-> <<[type_ |-> IntTy, init |-> Some(InitValExpr(Literal))]>>]}

\* the statements of exactly n nodes, given S[k], the statements of k < n nodes,
\* and Q[k + 1], the statement lists of k < n nodes
StmtsFrom(S, Q, n) ==
    (IF n = 1 THEN LeafStmts ELSE {})
    \cup {[s |-> "Block", stmts |-> ss] : ss \in Q[n]}
    \cup (IF n = 1 THEN {}
          ELSE {[s |-> "While", cond |-> c, body |-> x] : c \in CondExprs, x \in S[n - 1]}
               \cup {[s |-> "For", init |-> None, cond |-> cu[1], update |-> cu[2],
                       body |-> x] :
                         cu \in {<<None, None>>, <<Some(Literal), Some(Literal)>>,
                                 <<Some(Infix("LogicAnd", Literal, Literal)), None>>},
                         x \in S[n - 1]}
               \cup {[s |-> "IfElse", cond |-> c, then_stmt |-> t, else_stmt |-> None] :
                         c \in CondExprs, t \in S[n - 1]}
               \cup UNION {{[s |-> "IfElse", cond |-> c, then_stmt |-> t,
                             else_stmt |-> Some(x)] :
                                c \in CondExprs, t \in S[i], x \in S[n - 1 - i]} :
                           i \in 1..(n - 2)})

\* the statement lists of exactly n nodes, given S[k] for k <= n and Q[k + 1] for k < n
StmtSeqsFrom(S, Q, n) ==
    UNION {{<<x>> \o rest : x \in S[i], rest \in Q[n - i + 1]} : i \in 1..n}

RECURSIVE StmtTable(_)
StmtTable(n) ==
    IF n = 0 THEN [S |-> <<>>, Q |-> <<{<<>>}>>]
    ELSE LET prev == StmtTable(n - 1)
             S == Append(prev.S, StmtsFrom(prev.S, prev.Q, n))
         IN  [S |-> S, Q |-> Append(prev.Q, StmtSeqsFrom(S, prev.Q, n))]

\* StmtSeqs[k + 1]: the function bodies of k nodes, k < MaxNodes
StmtSeqs == StmtTable(MaxNodes - 1).Q

GlobalDecls ==
    {[type_ |-> IntTy, init |-> None],
     [type_ |-> IntTy, init |-> Some(InitValExpr(Literal))],
     [type_ |-> ArrayTy(2, IntTy),
      init |-> Some(InitValArray(<<InitValExpr(Literal), InitValExpr(Literal)>>))]}

\* the function declarations of exactly n nodes
FuncDeclsOfSize(n) ==
    {[params |-> p, body |-> None] : p \in {q \in 0..MaxParams : 1 + q = n}}
    \cup UNION {{[params |-> p, body |-> Some(ss)] : ss \in StmtSeqs[n - p]} :
                p \in {q \in 0..MaxParams : 1 + q <= n}}

(***************************************************************************)
(* SpecIR: ir_builder::build.                                              *)
(***************************************************************************)
TheBuilder ==
    [values |-> values, functions |-> functions, global_variables |-> global_variables,
     sym2def |-> sym2def, cur_func |-> cur_func, cur_bb |-> cur_bb,
     loop_stack |-> loop_stack, failure |-> failure, syms |-> syms, log |-> log,
     frames |-> <<>>, ret |-> 0]

Becomes(b) ==
    /\ values' = b.values
    /\ functions' = b.functions
    /\ global_variables' = b.global_variables
    /\ sym2def' = b.sym2def
    /\ cur_func' = b.cur_func
    /\ cur_bb' = b.cur_bb
    /\ loop_stack' = b.loop_stack
    /\ failure' = b.failure
    /\ syms' = b.syms
    /\ log' = b.log

\* Builder::new
InitIR ==
    /\ values = <<>>
    /\ functions = <<>>
    /\ global_variables = <<>>
    /\ sym2def = <<>>
    /\ cur_func = 0
    /\ cur_bb = 0
    /\ loop_stack = <<>>
    /\ failure = "none"
    /\ syms = 0
    /\ log = <<>>
    /\ ast = [var_decls |-> <<>>, func_decls |-> <<>>]
    /\ nodes = 0
    /\ pc = "globals"
    /\ asm_values = <<>>
    /\ globals = <<>>
    /\ bss_globals = <<>>
    /\ asm_bbs = <<>>
    /\ bb_map = <<>>
    /\ vreg_map = <<>>
    /\ vreg_idx = 0
    /\ mc_log = <<>>
    /\ mc_pc = [stage |-> "idle", bb |-> 0, inst |-> 0]

\* Builder::build_module, one round of the loop over ast.var_decls
BuildModuleVarDecl ==
    /\ pc = "globals"
    /\ failure = "none"
    /\ nodes < MaxNodes
    /\ \E var_decl \in GlobalDecls :
          /\ Becomes(BuildGlobalVariable(TheBuilder, var_decl))
          /\ ast' = [ast EXCEPT !.var_decls = Append(@, var_decl)]
    /\ nodes' = nodes + 1
    /\ pc' = pc
    /\ UNCHANGED mcvars

\* Builder::build_module, one round of the loop over ast.func_decls
BuildModuleFuncDecl ==
    /\ pc \in {"globals", "functions"}
    /\ failure = "none"
    /\ \E n \in 1..(MaxNodes - nodes) :
          \E func_decl \in FuncDeclsOfSize(n) :
              /\ Becomes(BuildFunction(TheBuilder, func_decl))
              /\ ast' = [ast EXCEPT !.func_decls = Append(@, func_decl)]
              /\ nodes' = nodes + n
    /\ pc' = "functions"
    /\ UNCHANGED mcvars

\* ir_builder::build returns builder.module
BuildModuleDone ==
    /\ pc \in {"globals", "functions"}
    /\ failure = "none"
    /\ pc' = "done"
    /\ UNCHANGED <<values, functions, global_variables, sym2def, cur_func, cur_bb,
                   loop_stack, failure, syms, log, ast, nodes>>
    /\ UNCHANGED mcvars

NextIR == BuildModuleVarDecl \/ BuildModuleFuncDecl \/ BuildModuleDone

SpecIR == InitIR /\ [][NextIR]_vars

(***************************************************************************)
(* SpecExpr: build_function on a function with parameters, its body one    *)
(* expression statement at a time.  The expressions read and assign the    *)
(* parameters.                                                             *)
(***************************************************************************)
\* parameters of the function
MaxVars == 2
\* expression statements of its body
MaxStmts == 2

Idents(np) == {Ident(k) : k \in 1..np}
\* x, 1, x + 1, x = e, x = y = e
ExprsOver(np) ==
    LET atoms == {Literal} \cup Idents(np)
        adds == {Infix("Add", x, Literal) : x \in Idents(np)}
        assigns == {Infix("Assign", x, e) : x \in Idents(np), e \in atoms \cup adds}
    IN  atoms \cup adds \cup assigns
        \cup {Infix("Assign", x, e) : x \in Idents(np), e \in assigns}

NewBuilder ==
    [values |-> <<>>, functions |-> <<>>, global_variables |-> <<>>, sym2def |-> <<>>,
     cur_func |-> 0, cur_bb |-> 0, loop_stack |-> <<>>, failure |-> "none", syms |-> 0,
     log |-> <<>>, frames |-> <<>>, ret |-> 0]

\* build_function up to the body
InitExpr ==
    /\ \E np \in 1..MaxVars :
          LET b == BuildFunction(NewBuilder, [params |-> np, body |-> Some(<<>>)])
          IN  /\ values = b.values
              /\ functions = b.functions
              /\ sym2def = b.sym2def
              /\ cur_func = b.cur_func
              /\ cur_bb = b.cur_bb
              /\ syms = b.syms
              /\ ast = [var_decls |-> <<>>,
                        func_decls |-> <<[params |-> np, body |-> Some(<<>>)]>>]
    /\ global_variables = <<>>
    /\ loop_stack = <<>>
    /\ failure = "none"
    /\ log = <<>>
    /\ nodes = 0
    /\ pc = "body"
    /\ asm_values = <<>>
    /\ globals = <<>>
    /\ bss_globals = <<>>
    /\ asm_bbs = <<>>
    /\ bb_map = <<>>
    /\ vreg_map = <<>>
    /\ vreg_idx = 0
    /\ mc_log = <<>>
    /\ mc_pc = [stage |-> "idle", bb |-> 0, inst |-> 0]

\* build_block_statement on the body, one round: an expression statement
BuildBodyExprStmt ==
    /\ pc = "body"
    /\ failure = "none"
    /\ nodes < MaxStmts
    /\ \E expr \in ExprsOver(Len(values[cur_func].opnds)) :
          LET stmt == [s |-> "Expr", expr |-> Some(expr)]
          IN  /\ Becomes(LoggedStmt("Expr", TheBuilder,
                                    BuildStatement(TheBuilder, stmt), stmt))
              /\ ast' = [ast EXCEPT !.func_decls[1].body[1] = Append(@, stmt)]
    /\ nodes' = nodes + 1
    /\ pc' = pc
    /\ UNCHANGED mcvars

\* build_function returns
BuildBodyDone ==
    /\ pc = "body"
    /\ failure = "none"
    /\ pc' = "done"
    /\ UNCHANGED <<values, functions, global_variables, sym2def, cur_func, cur_bb,
                   loop_stack, failure, syms, log, ast, nodes>>
    /\ UNCHANGED mcvars

NextExpr == BuildBodyExprStmt \/ BuildBodyDone

SpecExpr == InitExpr /\ [][NextExpr]_vars

(***************************************************************************)
(* SpecArray: build_function on a function whose body declares one local   *)
(* constant-sized array with a braced initializer.                         *)
(***************************************************************************)
\* the size of a dimension; a braced list holds one item more at most
MaxDim == 3

\* int a[n], int a[n][m], and int a[2][2][2]
ArrayTypes ==
    {ArrayTy(n, IntTy) : n \in 1..MaxDim}
    \cup {ArrayTy(n, ArrayTy(m, IntTy)) : n, m \in 1..MaxDim}
    \cup {ArrayTy(2, ArrayTy(2, ArrayTy(2, IntTy)))}

\* the scalars an array of this type holds
RECURSIVE Capacity(_)
Capacity(ty) == IF ty.t = "Array" THEN ty.size * Capacity(ty.element_type) ELSE 1

\* the items of a braced list get the values next, next + 1, ... in the order
\* they are written
RECURSIVE Numbered(_, _)
Numbered(items, next) ==
    IF items = <<>> THEN [items |-> <<>>, next |-> next]
    ELSE LET h == IF Head(items).iv = "Expr"
                  THEN [items |-> <<InitValExpr(IntLiteral(next))>>, next |-> next + 1]
                  ELSE LET r == Numbered(Head(items).items, next)
                       IN  [items |-> <<InitValArray(r.items)>>, next |-> r.next]
             rest == Numbered(Tail(items), h.next)
         IN  [items |-> h.items \o rest.items, next |-> rest.next]

FlatList(n) == [k \in 1..n |-> InitValExpr(Literal)]
\* the braced lists for an array of this type: flat lists up to one item over
\* its capacity, and lists of at most MaxDim items, each an expression or a
\* braced list of at most MaxDim expressions
InitLists(ty) ==
    LET items == {InitValExpr(Literal)} \cup {InitValArray(FlatList(n)) : n \in 0..MaxDim}
        lists == {FlatList(n) : n \in 0..(Capacity(ty) + 1)}
                 \cup UNION {[1..n -> items] : n \in 0..MaxDim}
    IN  {Numbered(l, 1).items : l \in lists}

\* build_function up to the body
InitArray ==
    /\ LET b == BuildFunction(NewBuilder, [params |-> 0, body |-> Some(<<>>)])
       IN  /\ values = b.values
           /\ functions = b.functions
           /\ sym2def = b.sym2def
           /\ cur_func = b.cur_func
           /\ cur_bb = b.cur_bb
           /\ syms = b.syms
           /\ ast = [var_decls |-> <<>>,
                     func_decls |-> <<[params |-> 0, body |-> Some(<<>>)]>>]
    /\ global_variables = <<>>
    /\ loop_stack = <<>>
    /\ failure = "none"
    /\ log = <<>>
    /\ nodes = 0
    /\ pc = "body"
    /\ asm_values = <<>>
    /\ globals = <<>>
    /\ bss_globals = <<>>
    /\ asm_bbs = <<>>
    /\ bb_map = <<>>
    /\ vreg_map = <<>>
    /\ vreg_idx = 0
    /\ mc_log = <<>>
    /\ mc_pc = [stage |-> "idle", bb |-> 0, inst |-> 0]

\* build_block_statement on the body: the declaration of the array
BuildBodyArrayDecl ==
    /\ pc = "body"
    /\ failure = "none"
    /\ nodes = 0
    /\ \E ty \in ArrayTypes :
          \E items \in InitLists(ty) :
             LET stmt == [s |-> "VarDecls",
                          decls |-> <<[type_ |-> ty, init |-> Some(InitValArray(items))]>>]
             IN  /\ Becomes(LoggedStmt("ArrayDecl", TheBuilder,
                                       BuildStatement(TheBuilder, stmt), stmt))
                 /\ ast' = [ast EXCEPT !.func_decls[1].body[1] = Append(@, stmt)]
    /\ nodes' = nodes + 1
    /\ pc' = pc
    /\ UNCHANGED mcvars

NextArray == BuildBodyArrayDecl \/ BuildBodyDone

SpecArray == InitArray /\ [][NextArray]_vars

(***************************************************************************)
(* Properties of the IR builder.                                           *)
(***************************************************************************)
FunctionIds == {functions[i] : i \in DOMAIN functions}
BlocksOf(f) == {values[f].body[i] : i \in DOMAIN values[f].body}
AllBlocks == {v \in DOMAIN values : values[v].kind = "BasicBlock"}
EntryBlocks == {values[f].body[1] : f \in {g \in FunctionIds : values[g].body # <<>>}}
InBlock(bb, id) == \E i \in DOMAIN values[bb].body : values[bb].body[i] = id
\* the places <<block, index>> where the instruction id stands
Places(id) ==
    UNION {{<<bb, i>> : i \in {j \in DOMAIN values[bb].body : values[bb].body[j] = id}} :
           bb \in AllBlocks}
Events(ev) == {i \in DOMAIN log : log[i].ev = ev}

\* C1: in every function the builder produced, no basic block holds an
\* instruction after a terminator: a Jump, Branch or Return is the last
\* instruction of its block (the "in particular" half of the claim, which the
\* claim that every block has exactly one terminator, the last, implies).
C1_TerminatorIsLast ==
    failure = "none" =>
        \A f \in FunctionIds : \A bb \in BlocksOf(f) :
            \A j \in DOMAIN values[bb].body :
                IsTerm(values[values[bb].body[j]]) => j = Len(values[bb].body)

C3_Sym2DefTargets ==
    \A sym \in DOMAIN sym2def :
        LET id == sym2def[sym]
        IN  \/ values[id].kind = "GlobalVariable"
            \/ /\ IsInst(values[id], "Alloca")
               /\ \E bb \in EntryBlocks : InBlock(bb, id)

\* C3 witness: a global, a parameter and a local have been lowered and all
\* three are in sym2def.
C3_Witness ==
    /\ \E sym \in DOMAIN sym2def : values[sym2def[sym]].kind = "GlobalVariable"
    /\ \E f \in FunctionIds : values[f].opnds # <<>> /\ values[f].body # <<>>
    /\ \E i \in Events("VarDecl") : log[i].failure = "none" /\ log[i].sym \in DOMAIN sym2def
    /\ Cardinality(DOMAIN sym2def) >= 3

\* the field of a loop_stack entry a break (1) or a continue (2) reads
TargetField(ev) == IF ev = "Break" THEN 1 ELSE 2

\* C9: a break or continue lowered with an empty loop stack panics and emits
\* nothing; with a non-empty stack it emits one Jump, at the end of the current
\* block, to the break (continue) target of the top entry, and leaves the loop
\* stack as it was.
C9_BreakContinue ==
    \A i \in Events("Break") \cup Events("Continue") :
        LET e == log[i]
        IN  IF e.loop_stack = <<>>
            THEN /\ e.failure = (IF e.ev = "Break" THEN "break statement not in loop"
                                 ELSE "continue statement not in loop")
                 /\ e.values_after = e.values_before
                 /\ failure = e.failure
            ELSE /\ e.failure = "none"
                 /\ e.values_after = e.values_before + 1
                 /\ e.ret = e.values_after
                 /\ values[e.ret] =
                        InstValue("Jump", <<Last(e.loop_stack)[TargetField(e.ev)]>>, "")
                 /\ Places(e.ret) \subseteq {e.cur_bb} \X DOMAIN values[e.cur_bb].body
                 /\ e.loop_stack_after = e.loop_stack

\* C9 witness: a break inside a loop was lowered, then a continue outside of
\* any loop ended the run.
C9_Witness ==
    /\ \E i \in Events("Break") : log[i].loop_stack # <<>> /\ log[i].failure = "none"
    /\ \E i \in Events("Continue") : log[i].loop_stack = <<>>
    /\ failure = "continue statement not in loop"

\* C10: a break lowered inside the body of a loop jumps to the end block of the
\* innermost loop whose body is being lowered.
C10_BreakTargetsInnermostEnd ==
    \A i \in Events("Break") :
        LET e == log[i]
        IN  e.frames # <<>> =>
                /\ e.failure = "none"
                /\ values[e.ret] = InstValue("Jump", <<Last(e.frames).end_bb>>, "")

\* the position of block bb in the block list of function f (0: not in it)
BlockIndex(f, bb) ==
    IF \E k \in DOMAIN values[f].body : values[f].body[k] = bb
    THEN CHOOSE k \in DOMAIN values[f].body : values[f].body[k] = bb
    ELSE 0
\* the instructions of block bb that are a Jump to block tgt
JumpsTo(bb, tgt) ==
    {j \in DOMAIN values[bb].body : values[values[bb].body[j]] = InstValue("Jump", <<tgt>>, "")}
\* the blocks a while or for statement created first: cond, body, end
CondBb(e) == e.values_before + 1
BodyBb(e) == e.values_before + 2
EndBb(e) == e.values_before + 3

\* C11 (blocks of the loop): a while statement that was lowered ended cond_bb
\* with Branch(cond, body_bb, end_bb), put a Jump to cond_bb behind the body,
\* appended its blocks in the order cond, body, end, each once, and left end_bb
\* as the insertion point.
WhileBlocksAsSpecified ==
    \A i \in Events("While") :
        LET e == log[i]
            cond == values[CondBb(e)].body
        IN  e.failure = "none" =>
                /\ cond # <<>>
                /\ IsInst(values[Last(cond)], "Branch")
                /\ SubSeq(values[Last(cond)].opnds, 2, 3) = <<BodyBb(e), EndBb(e)>>
                /\ \E bb \in BlocksOf(e.cur_func) : JumpsTo(bb, CondBb(e)) # {}
                /\ 0 < BlockIndex(e.cur_func, CondBb(e))
                /\ BlockIndex(e.cur_func, CondBb(e)) < BlockIndex(e.cur_func, BodyBb(e))
                /\ BlockIndex(e.cur_func, BodyBb(e)) < BlockIndex(e.cur_func, EndBb(e))
                /\ e.cur_bb_after = EndBb(e)

\* C11: a while statement that was lowered closed the block that was current
\* before the loop with a Jump to cond_bb, and built the blocks of the loop as
\* specified.
C11_WhileLowering ==
    /\ WhileBlocksAsSpecified
    /\ \A i \in Events("While") :
           LET e == log[i]
           IN  e.failure = "none" => JumpsTo(e.cur_bb, CondBb(e)) # {}

\* C12: a break or continue lowered directly inside the body of a for loop
\* found on top of the loop stack the pair (end_bb, update_bb) of that loop,
\* update_bb being a block of its own, and jumped to end_bb (break) or to
\* update_bb (continue).
C12_ForLoopStack ==
    \A i \in Events("Break") \cup Events("Continue") :
        LET e == log[i]
        IN  (e.frames # <<>> /\ Last(e.frames).kind = "For") =>
                LET loop == Last(e.frames)
                IN  /\ e.loop_stack # <<>>
                    /\ Last(e.loop_stack)[1] = loop.end_bb
                    /\ Last(e.loop_stack)[2] \notin {loop.cond_bb, loop.body_bb, loop.end_bb}
                    /\ Last(e.loop_stack)[2] \in AllBlocks
                    /\ e.failure = "none"
                    /\ values[e.ret] =
                           InstValue("Jump", <<Last(e.loop_stack)[TargetField(e.ev)]>>, "")

\* C13: a for statement that was lowered left its end_bb as the insertion
\* point, and end_bb stands once in the block list of the function.
C13_ForLeavesEndBb ==
    \A i \in Events("For") :
        LET e == log[i]
        IN  e.failure = "none" =>
                /\ e.cur_bb_after = EndBb(e)
                /\ Cardinality({k \in DOMAIN values[e.cur_func].body :
                                    values[e.cur_func].body[k] = EndBb(e)}) = 1

IsShortCircuit(expr) == expr.e = "Infix" /\ expr.op \in {"LogicAnd", "LogicOr"}
\* the instructions of block bb created while the statement of entry e was
\* lowered that are a BinOp && or ||
LogicBinOps(e, bb) ==
    {j \in DOMAIN values[bb].body :
        LET id == values[bb].body[j]
        IN  /\ id > e.values_before /\ id <= e.values_after
            /\ IsInst(values[id], "BinOp")
            /\ values[id].tag \in {"LogicAnd", "LogicOr"}}

\* C14: an if, while or for statement whose condition has && or || as its top
\* operator was lowered without a BinOp && / || in the block that evaluates
\* the condition (the current block for an if, cond_bb for a loop).
C14_NoBinOpForCondition ==
    \A i \in Events("IfElse") \cup Events("While") \cup Events("For") :
        LET e == log[i]
            cond == IF e.ev = "For" THEN e.stmt.cond ELSE Some(e.stmt.cond)
        IN  (e.failure = "none" /\ cond # None /\ IsShortCircuit(cond[1])) =>
                LogicBinOps(e, IF e.ev = "IfElse" THEN e.cur_bb ELSE CondBb(e)) = {}

\* C15: an if statement with the condition `a || b` (`a && b`), a and b
\* literals, was lowered like this: all that the condition puts in the current
\* block is the Branch on a, to the then block when true and to a new block
\* next when false (to next when true and to the false target when false);
\* next holds nothing but the Branch on b to the then block and the false
\* target; the then block stands once in the function and every instruction
\* created for the statement stands in one place.
C15_ShortCircuitIf ==
    \A i \in Events("IfElse") :
        LET e == log[i]
            cond == e.stmt.cond
            has_else == e.stmt.else_stmt # None
            T == e.values_before + 1
            F == IF has_else THEN e.values_before + 3 ELSE e.values_before + 2
            next == e.values_before + (IF has_else THEN 4 ELSE 3)
            is_or == cond.op = "LogicOr"
        IN  (e.failure = "none" /\ IsShortCircuit(cond)
                /\ cond.lhs.e = "Literal" /\ cond.rhs.e = "Literal") =>
                /\ values[next].kind = "BasicBlock"
                /\ values[next + 2] =
                       InstValue("Branch", <<next + 1, IF is_or THEN T ELSE next,
                                             IF is_or THEN next ELSE F>>, "")
                /\ {id \in (next + 1)..(next + 4) : InBlock(e.cur_bb, id)} = {next + 2}
                /\ values[next + 4] = InstValue("Branch", <<next + 3, T, F>>, "")
                /\ values[next].body = <<next + 4>>
                /\ Cardinality({k \in DOMAIN values[e.cur_func].body :
                                    values[e.cur_func].body[k] = T}) = 1
                /\ \A id \in (e.values_before + 1)..e.values_after :
                       values[id].kind = "Inst" => Cardinality(Places(id)) = 1

\* C15 witness: an if on `a || b` and an if on `a && b` have been lowered and
\* the build has ended.
C15_Witness ==
    /\ pc = "done"
    /\ \E i, j \in Events("IfElse") :
          /\ log[i].failure = "none" /\ log[j].failure = "none"
          /\ IsShortCircuit(log[i].stmt.cond) /\ log[i].stmt.cond.op = "LogicOr"
          /\ IsShortCircuit(log[j].stmt.cond) /\ log[j].stmt.cond.op = "LogicAnd"

\* the identifiers of an expression that are read, not assigned
RECURSIVE ValueIdents(_)
ValueIdents(expr) ==
    IF expr.e = "Ident" THEN 1
    ELSE IF expr.e = "Infix"
    THEN (IF expr.op = "Assign" THEN 0 ELSE ValueIdents(expr.lhs)) + ValueIdents(expr.rhs)
    ELSE 0
IsAssign(expr) == expr.e = "Infix" /\ expr.op = "Assign"

\* C16: an expression statement `x = rhs` that was lowered emitted one Load
\* per identifier that is read and none for an assigned one, ended with
\* Store(address of x, v), v being no Store, and build_expr returned v; when
\* rhs is itself an assignment `y = e`, v is the value stored into y.
C16_AssignYieldsStoredValue ==
    \A i \in Events("Expr") :
        LET e == log[i]
            expr == e.stmt.expr[1]
            created == (e.values_before + 1)..e.values_after
            st == e.values_after
        IN  (e.failure = "none" /\ IsAssign(expr)) =>
                /\ Cardinality({id \in created : IsInst(values[id], "Load")})
                       = ValueIdents(expr)
                /\ IsInst(values[st], "Store")
                /\ values[st].opnds[1] = sym2def[expr.lhs.symbol_id]
                /\ ~IsInst(values[values[st].opnds[2]], "Store")
                /\ e.ret = values[st].opnds[2]
                /\ IsAssign(expr.rhs) =>
                       values[st].opnds[2] = values[st - 1].opnds[2]

\* C18: every global variable declaration that build_module has lowered, be
\* it without initializer, with an expression or with a braced array
\* initializer, left a GlobalVariable value that carries the initializer if
\* there is one, is registered in global_variables and is the target of its
\* symbol in sym2def; lowering the globals does not fail.
C18_GlobalsRegistered ==
    /\ pc = "globals" => failure = "none"
    /\ \A k \in DOMAIN ast.var_decls :
          /\ k \in DOMAIN sym2def
          /\ values[sym2def[k]].kind = "GlobalVariable"
          /\ \E j \in DOMAIN global_variables : global_variables[j] = sym2def[k]
          /\ (ast.var_decls[k].init = None) <=> (values[sym2def[k]].opnds = <<>>)

\* What a braced list initialises: the cells <<index path, value>> of the
\* array in row-major order.  A braced item stands for the next element of
\* the array being filled; an expression where an array is expected opens a
\* run of flat items that fills that element.  ok is FALSE when a braced
\* list stands where a scalar is expected.
RECURSIVE InitCells(_, _, _)
RECURSIVE InitCellsFrom(_, _, _, _)
InitCells(ty, items, path) ==
    IF ty.t = "Array" THEN InitCellsFrom(ty, items, path, 0)
    ELSE IF items = <<>> THEN [cells |-> <<>>, rest |-> items, ok |-> TRUE]
    ELSE IF Head(items).iv = "Expr"
    THEN [cells |-> <<[path |-> path, value |-> Head(items).expr.value]>>,
          rest |-> Tail(items), ok |-> TRUE]
    ELSE [cells |-> <<>>, rest |-> Tail(items), ok |-> FALSE]

InitCellsFrom(ty, items, path, i) ==
    IF i = ty.size THEN [cells |-> <<>>, rest |-> items, ok |-> TRUE]
    ELSE LET elem == ty.element_type
             first == IF elem.t = "Array" /\ items # <<>> /\ Head(items).iv = "Array"
                      THEN LET r == InitCells(elem, Head(items).items, Append(path, i))
                           IN  [cells |-> r.cells, rest |-> Tail(items), ok |-> r.ok]
                      ELSE InitCells(elem, items, Append(path, i))
             others == InitCellsFrom(ty, first.rest, path, i + 1)
         IN  [cells |-> first.cells \o others.cells, rest |-> others.rest,
              ok |-> first.ok /\ others.ok]

\* the indices i1, i2, ... of the chain GEP(GEP(array, [0, i1]), [0, i2]) ...
\* that ends in id; <<-1>> where the chain is not of that form
RECURSIVE GepPath(_, _)
GepPath(id, array) ==
    IF id = array THEN <<>>
    ELSE IF /\ IsInst(values[id], "Gep")
            /\ Len(values[id].opnds) = 3
            /\ values[values[id].opnds[2]] = Value("Const", "", <<0>>, <<>>, "")
            /\ values[values[id].opnds[3]].kind = "Const"
    THEN Append(GepPath(values[id].opnds[1], array), values[values[id].opnds[3]].opnds[1])
    ELSE <<-1>>

\* the Stores an event emitted, in the order they stand in the block that was
\* current
NewStores(e) ==
    LET IsNewStore(id) ==
            /\ id > e.values_before
            /\ id <= e.values_after
            /\ IsInst(values[id], "Store")
    IN  SelectSeq(values[e.cur_bb].body, IsNewStore)

\* C17: lowering the braced initializer of a local constant-sized array, in
\* which braced lists stand for sub-arrays only, does not fail and emits one
\* Store per supplied scalar item that falls within the array's capacity, in
\* row-major order: the k-th Store stores the constant of the k-th item
\* through the chain GEP(array, [0, i]) per dimension that addresses the
\* k-th cell the list initialises.  Nested and flat lists of the same items
\* give the same Stores.
C17_ArrayInitStores ==
    \A n \in Events("ArrayDecl") :
        LET e == log[n]
            decl == e.stmt.decls[1]
            want == InitCells(decl.type_, decl.init[1].items, <<>>)
            stores == NewStores(e)
        IN  want.ok =>
                /\ e.failure = "none"
                /\ IsInst(values[e.ret], "Alloca")
                /\ Len(stores) = Len(want.cells)
                /\ Len(stores) =
                       Cardinality({id \in (e.values_before + 1)..e.values_after :
                                       IsInst(values[id], "Store")})
                /\ \A k \in DOMAIN stores :
                       LET st == values[stores[k]]
                       IN  /\ values[st.opnds[2]] =
                                  Value("Const", "", <<want.cells[k].value>>, <<>>, "")
                           /\ GepPath(st.opnds[1], e.ret) = want.cells[k].path
                           /\ k > 1 => stores[k - 1] < stores[k]

\* C17 witness: int a[2][3] = {{1,2,3},{4,5,6}} has been lowered into six
\* Stores.
C17_Witness ==
    \E n \in Events("ArrayDecl") :
        LET decl == log[n].stmt.decls[1]
        IN  /\ decl.type_ = ArrayTy(2, ArrayTy(3, IntTy))
            /\ decl.init[1].items =
                   Numbered(<<InitValArray(FlatList(3)), InitValArray(FlatList(3))>>, 1).items
            /\ log[n].failure = "none"
            /\ Len(NewStores(log[n])) = 6

(***************************************************************************)
(* mc_builder.rs: the McBuilder.  As with the Builder, each handler is an  *)
(* operator on a record of the McBuilder's fields:                         *)
(*   asm_bbs, bb_map, vreg_map, vreg_idx  as the variables of that name    *)
(*   failure : "none" or the panic                                         *)
(*   by      : the step that is emitting instructions ("prologue", "inst", *)
(*             "phis"), stamped on every instruction it emits              *)
(*   ret     : what the last call returned                                 *)
(* The IR it lowers is read from values (ir_module).  All values are       *)
(* integers: the float paths (VMOV, VLDR, VfpReg) are not drawn.           *)
(***************************************************************************)
\* AsmOperand (mc.rs)
VirtReg(index) == <<"VirtReg", index>>
IntReg(n) == <<"IntReg", n>>
Imm(value) == <<"Imm", value>>
StackOperand(offset) == <<"StackOperand", offset>>
IsVirtReg(op) == op[1] = "VirtReg"
IsImm(op) == op[1] = "Imm"
IsStackOperand(op) == op[1] = "StackOperand"

\* AsmInst (mc_inst.rs): defs, uses, a Br's condition and target, and the
\* constraints <<vreg, physical register>> the instruction carries
AsmInst(op, defs, uses) ==
    [op |-> op, defs |-> defs, uses |-> uses, cond |-> "", target |-> 0,
     in_constraints |-> {}, out_constraints |-> {}, by |-> ""]
BrInst(cond, target) == [AsmInst("Br", <<>>, <<>>) EXCEPT !.cond = cond, !.target = target]
MovInst(dst, src) == AsmInst("Mov", <<dst>>, <<src>>)
CMPInst(lhs, rhs) == AsmInst("CMP", <<>>, <<lhs, rhs>>)

\* AsmBlock (mc.rs)
AsmBlock == [insts |-> <<>>, preds |-> <<>>, succs |-> <<>>]

McFailed(m) == m.failure # "none"
McPanic(m, why) == IF McFailed(m) THEN m ELSE [m EXCEPT !.failure = why]

Stamp(m, insts) == [i \in DOMAIN insts |-> [insts[i] EXCEPT !.by = m.by]]

\* abb.insts.extend / push
PushInsts(m, asm_bb_id, insts) ==
    IF McFailed(m) THEN m
    ELSE [m EXCEPT !.asm_bbs[asm_bb_id].insts = @ \o Stamp(m, insts)]

\* the trailing Br / Ret instructions of a block
RECURSIVE BranchStart(_)
BranchStart(insts) ==
    IF insts # <<>> /\ Last(insts).op \in {"Br", "Ret"}
    THEN BranchStart(Front(insts))
    ELSE Len(insts) + 1

\* AsmModule::add_all_before_branch: the instructions go to the end of the
\* block, before the branch that ends it
AddAllBeforeBranch(m, asm_bb_id, insts) ==
    IF McFailed(m) THEN m
    ELSE LET old == m.asm_bbs[asm_bb_id].insts
             at == BranchStart(old)
         IN  [m EXCEPT !.asm_bbs[asm_bb_id].insts =
                 SubSeq(old, 1, at - 1) \o Stamp(m, insts) \o SubSeq(old, at, Len(old))]

\* AsmModule::load_imm: the instructions that put the immediate in dst
LoadImm(dst, imm) == <<MovInst(dst, imm)>>

\* VfpCallConv::resolve for integer parameters: r0..r3, then the stack;
\* the return value in r0
ArgLoc(i) == IF i <= 4 THEN IntReg(i - 1) ELSE StackOperand(4 * (i - 5))
RetReg == IntReg(0)

\* McBuilder::get_vreg
GetVreg(m) == [m EXCEPT !.ret = VirtReg(m.vreg_idx), !.vreg_idx = @ + 1]

VregMapInsert(m, id, vreg) ==
    [m EXCEPT !.vreg_map =
        [v \in DOMAIN m.vreg_map \cup {id} |-> IF v = id THEN vreg ELSE m.vreg_map[v]]]

\* the index of a parameter in the parameter list of the function
ParamIndex(func, id) == CHOOSE i \in DOMAIN values[func].opnds : values[func].opnds[i] = id

\* McBuilder::convert_value_with_before_jump
ConvertValueWithBeforeJump(m, value_id, ssa_func_id, asm_bb_id, before_jump) ==
    IF McFailed(m) THEN m
    ELSE IF value_id \in DOMAIN m.vreg_map THEN [m EXCEPT !.ret = m.vreg_map[value_id]]
    ELSE LET v == values[value_id]
         IN  IF v.kind \in {"BasicBlock", "Function"}
             THEN [McPanic(m, "not implemented") EXCEPT !.ret = VirtReg(m.vreg_idx)]
             ELSE IF v.kind = "Const" THEN [m EXCEPT !.ret = Imm(value_id)]
             ELSE IF v.kind = "GlobalVariable"
             THEN \* gv_map is never filled: self.gv_map.get(..).unwrap()
                  [McPanic(m, "called Option::unwrap() on a None value")
                      EXCEPT !.ret = Imm(value_id)]
             ELSE LET ret == VirtReg(m.vreg_idx)
                      m1 == VregMapInsert(m, value_id, ret)
                  IN  IF v.kind # "Variable" THEN [m1 EXCEPT !.ret = ret]
                      ELSE LET loc == ArgLoc(ParamIndex(ssa_func_id, value_id))
                               load == <<AsmInst("LDR", <<ret>>, <<loc>>)>>
                           IN  IF ~IsStackOperand(loc)
                               THEN [McPanic(m1, "assertion failed: loc.is_stack_operand()")
                                        EXCEPT !.ret = ret]
                               ELSE [(IF before_jump
                                      THEN AddAllBeforeBranch(m1, asm_bb_id, load)
                                      ELSE PushInsts(m1, asm_bb_id, load))
                                        EXCEPT !.ret = ret]

\* McBuilder::convert_value
ConvertValue(m, value_id, ssa_func_id, asm_bb_id) ==
    ConvertValueWithBeforeJump(m, value_id, ssa_func_id, asm_bb_id, FALSE)

\* McBuilder::expand_imm; returns the operand to use and the instructions
\* that must come first
ExpandImm(m, op) ==
    IF IsImm(op)
    THEN LET m1 == GetVreg(m)
             tmp == m1.ret
         IN  [m1 EXCEPT !.ret = [op |-> tmp, insts |-> LoadImm(tmp, op)]]
    ELSE [m EXCEPT !.ret = [op |-> op, insts |-> <<>>]]

\* Imm::highest_one_bit
RECURSIVE HighestOneBit(_)
HighestOneBit(n) == IF n <= 1 THEN n ELSE 2 * HighestOneBit(n \div 2)

\* McBuilder::expand_operand2
ExpandOperand2(m, op) ==
    IF IsImm(op) /\ ~(HighestOneBit(op[2]) < 255)
    THEN LET m1 == GetVreg(m)
             tmp == m1.ret
         IN  [m1 EXCEPT !.ret = [op |-> tmp, insts |-> LoadImm(tmp, op)]]
    ELSE [m EXCEPT !.ret = [op |-> op, insts |-> <<>>]]

\* McBuilder::expand_inst_imm, the loop over the uses
RECURSIVE ExpandUses(_, _, _, _)
ExpandUses(m, uses, newuse, ret) ==
    IF uses = <<>> THEN [m EXCEPT !.ret = [newuse |-> newuse, insts |-> ret]]
    ELSE LET m1 == ExpandImm(m, Head(uses))
         IN  ExpandUses(m1, Tail(uses), Append(newuse, m1.ret.op), ret \o m1.ret.insts)

\* McBuilder::expand_inst_imm; returns the instructions, the given one last
ExpandInstImm(m, inst) ==
    LET m1 == ExpandUses(m, inst.uses, <<>>, <<>>)
    IN  [m1 EXCEPT !.ret = Append(m1.ret.insts, [inst EXCEPT !.uses = m1.ret.newuse])]

\* McBuilder::expand_cmp_imm
ExpandCmpImm(m, inst) ==
    LET m1 == ExpandImm(m, inst.uses[1])
        m2 == ExpandOperand2(m1, inst.uses[2])
    IN  [m2 EXCEPT !.ret = (m1.ret.insts \o m2.ret.insts)
                              \o <<[inst EXCEPT !.uses = <<m1.ret.op, m2.ret.op>>]>>]

\* PhiInst.incomings: the pairs <<value, from block>>
Incomings(phi_id) ==
    [i \in 1..(Len(values[phi_id].opnds) \div 2) |->
        <<values[phi_id].opnds[2 * i - 1], values[phi_id].opnds[2 * i]>>]

IsPhi(v) == v.kind = "Inst" /\ v.op = "Phi"

\* Module::get_phis
GetPhis(block_id) == SelectSeq(values[block_id].body, LAMBDA id : IsPhi(values[id]))

McEvent(m, ev, asm_bb_id, movs, to_add, vreg_idx_before) ==
    [m EXCEPT !.mc_log = Append(@,
        [ev |-> ev, bb |-> asm_bb_id, movs |-> movs, to_add |-> to_add,
         vreg_idx |-> vreg_idx_before, failure |-> m.failure])]

\* McBuilder::make_parallel_movs, the loop over parallel_movs
RECURSIVE ParallelMovsLoop(_, _, _, _)
ParallelMovsLoop(m, parallel_movs, killed, to_add) ==
    IF parallel_movs = <<>> THEN [m EXCEPT !.ret = to_add]
    ELSE LET key == Head(parallel_movs)[1]
             value == Head(parallel_movs)[2]
         IN  IF value \in killed
             THEN LET m1 == GetVreg(m)
                      temp == m1.ret
                      m2 == ExpandInstImm(m1, MovInst(temp, value))
                      backup == m2.ret
                      m3 == ExpandInstImm(m2, MovInst(key, temp))
                  IN  ParallelMovsLoop(m3, Tail(parallel_movs), killed \cup {key},
                                       (backup \o to_add) \o m3.ret)
             ELSE LET m1 == ExpandInstImm(m, MovInst(key, value))
                  IN  ParallelMovsLoop(m1, Tail(parallel_movs), killed \cup {key},
                                       to_add \o m1.ret)

\* McBuilder::make_parallel_movs
MakeParallelMovs(m, asm_bb_id, parallel_movs) ==
    IF McFailed(m) THEN m
    ELSE LET m1 == ParallelMovsLoop(m, parallel_movs, {}, <<>>)
             m2 == AddAllBeforeBranch(m1, asm_bb_id, m1.ret)
         IN  McEvent(m2, "make_parallel_movs", asm_bb_id, parallel_movs, m1.ret, m.vreg_idx)

\* McBuilder::visit_phis, one predecessor: the loop over the phis
RECURSIVE SinglePredMovs(_, _, _, _, _)
SinglePredMovs(m, phi_ids, ssa_func_id, asm_bb_id, parallel_movs) ==
    IF McFailed(m) \/ phi_ids = <<>> THEN [m EXCEPT !.ret = parallel_movs]
    ELSE LET phi_id == Head(phi_ids)
             m1 == ConvertValue(m, phi_id, ssa_func_id, asm_bb_id)
             target == m1.ret
         IN  IF Len(Incomings(phi_id)) # 1
             THEN [McPanic(m1, "assertion failed: phi.incomings.len() == 1")
                      EXCEPT !.ret = parallel_movs]
             ELSE LET m2 == ConvertValue(m1, Incomings(phi_id)[1][1], ssa_func_id, asm_bb_id)
                  IN  SinglePredMovs(m2, Tail(phi_ids), ssa_func_id, asm_bb_id,
                                     Append(parallel_movs, <<target, m2.ret>>))

\* McBuilder::visit_phis, several predecessors: the loop over phi.incomings;
\* acc = [found, movs]
RECURSIVE IncomingsFromPred(_, _, _, _, _, _, _)
IncomingsFromPred(m, incomings, ssa_func_id, asm_bb_id, pred_id, target, acc) ==
    IF McFailed(m) \/ incomings = <<>> THEN [m EXCEPT !.ret = acc]
    ELSE LET val_id == Head(incomings)[1]
             from_bb_id == Head(incomings)[2]
         IN  IF ~(from_bb_id \in DOMAIN m.bb_map /\ m.bb_map[from_bb_id] = pred_id)
             THEN IncomingsFromPred(m, Tail(incomings), ssa_func_id, asm_bb_id, pred_id,
                                    target, acc)
             ELSE IF acc.found
             THEN [McPanic(m, "assertion failed: !found") EXCEPT !.ret = acc]
             ELSE LET m1 == ConvertValueWithBeforeJump(m, val_id, ssa_func_id, asm_bb_id, TRUE)
                  IN  IncomingsFromPred(m1, Tail(incomings), ssa_func_id, asm_bb_id, pred_id,
                          target, [found |-> TRUE, movs |-> Append(acc.movs, <<target, m1.ret>>)])

\* McBuilder::visit_phis, several predecessors: the loop over the phis for one
\* predecessor
RECURSIVE PredMovs(_, _, _, _, _, _, _)
PredMovs(m, phi_ids, ssa_func_id, asm_bb_id, pred_id, size, parallel_movs) ==
    IF McFailed(m) \/ phi_ids = <<>> THEN [m EXCEPT !.ret = parallel_movs]
    ELSE LET phi_id == Head(phi_ids)
             m1 == ConvertValue(m, phi_id, ssa_func_id, asm_bb_id)
             target == m1.ret
         IN  IF size # Len(Incomings(phi_id))
             THEN [McPanic(m1, "assertion failed: size == phi.incomings.len()")
                      EXCEPT !.ret = parallel_movs]
             ELSE LET m2 == IncomingsFromPred(m1, Incomings(phi_id), ssa_func_id, asm_bb_id,
                                pred_id, target, [found |-> FALSE, movs |-> parallel_movs])
                  IN  IF McFailed(m2) THEN [m2 EXCEPT !.ret = parallel_movs]
                      ELSE IF ~m2.ret.found
                      THEN [McPanic(m2, "assertion failed: found") EXCEPT !.ret = parallel_movs]
                      ELSE PredMovs(m2, Tail(phi_ids), ssa_func_id, asm_bb_id, pred_id, size,
                                    m2.ret.movs)

\* McBuilder::visit_phis, several predecessors: the loop over the predecessors
RECURSIVE PredsLoop(_, _, _, _, _, _)
PredsLoop(m, preds, phi_ids, ssa_func_id, asm_bb_id, size) ==
    IF McFailed(m) \/ preds = <<>> THEN m
    ELSE LET pred_id == Head(preds)
         IN  IF Len(m.asm_bbs[pred_id].succs) # 1
             THEN McPanic(m, "Unsplit critical edge")
             ELSE LET m1 == PredMovs(m, phi_ids, ssa_func_id, asm_bb_id, pred_id, size, <<>>)
                      m2 == MakeParallelMovs(m1, pred_id, m1.ret)
                  IN  PredsLoop(m2, Tail(preds), phi_ids, ssa_func_id, asm_bb_id, size)

\* McBuilder::visit_phis
VisitPhis(m, phi_ids, ssa_func_id, asm_bb_id) ==
    LET preds == m.asm_bbs[asm_bb_id].preds
        m0 == [m EXCEPT !.by = "phis"]
        done ==
            IF preds = <<>> THEN McPanic(m0, "assertion failed: !preds.is_empty()")
            ELSE IF Len(preds) = 1
            THEN LET m1 == SinglePredMovs(m0, phi_ids, ssa_func_id, asm_bb_id, <<>>)
                 IN  MakeParallelMovs(m1, asm_bb_id, m1.ret)
            ELSE PredsLoop(m0, preds, phi_ids, ssa_func_id, asm_bb_id, Len(preds))
    IN  IF McFailed(m) THEN m
        ELSE McEvent(done, "visit_phis", asm_bb_id, <<>>, <<>>, m.vreg_idx)

\* ConstraintsTrait::set_in_constraint / set_out_constraint: one physical
\* register per vreg and instruction
SetConstraint(constraints, vreg, reg) ==
    {c \in constraints : c[1] # vreg} \cup {<<vreg, reg>>}

\* AsmBlock.next: the block that follows in layout order (0: none)
NextBlock(m, asm_bb_id) == IF asm_bb_id < Len(m.asm_bbs) THEN asm_bb_id + 1 ELSE 0

\* the instruction before inst_id in its block (0: none)
PrevInst(ssa_bb_id, inst_id) ==
    LET insts == values[ssa_bb_id].body
        idx == CHOOSE i \in DOMAIN insts : insts[i] = inst_id
    IN  IF idx > 1 THEN insts[idx - 1] ELSE 0

\* McBuilder.func_map: created empty, and nothing is ever inserted
func_map == <<>>

\* McBuilder::visit_term_inst.  In the Return arm "ret_inst.value" is read as
\* the value of the IR Return.
VisitTermInst(m, ssa_func_id, inst_id, ssa_bb_id, asm_bb_id) ==
    LET inst == values[inst_id]
    IN  IF McFailed(m) THEN m
        ELSE CASE inst.op = "Jump" ->
                    LET target_asm_bb_id == m.bb_map[inst.opnds[1]]
                        m1 == PushInsts(m, asm_bb_id, <<BrInst("AL", target_asm_bb_id)>>)
                    IN  [m1 EXCEPT !.asm_bbs[asm_bb_id].succs = <<target_asm_bb_id>>,
                                   !.asm_bbs[target_asm_bb_id].preds = Append(@, asm_bb_id)]
               [] inst.op = "Return" ->
                    LET prev == PrevInst(ssa_bb_id, inst_id)
                    IN  IF prev # 0 /\ IsInst(values[prev], "Call")
                               /\ values[prev].tag = "must_tail"
                        THEN m
                        ELSE IF inst.opnds = <<>>
                        THEN [PushInsts(m, asm_bb_id, <<AsmInst("Ret", <<>>, <<>>)>>)
                                 EXCEPT !.asm_bbs[asm_bb_id].succs = <<>>]
                        ELSE IF ssa_func_id \notin DOMAIN func_map
                        THEN McPanic(m, "called Option::unwrap() on a None value")
                        ELSE LET m1 == ConvertValue(m, inst.opnds[1], ssa_func_id, asm_bb_id)
                                 m2 == ExpandImm(m1, m1.ret)
                                 op == m2.ret.op
                                 m3 == PushInsts(m2, asm_bb_id, m2.ret.insts)
                                 ret_inst == [AsmInst("Ret", <<>>, <<op>>) EXCEPT
                                                !.in_constraints = SetConstraint(@, op, RetReg)]
                             IN  IF McFailed(m1) THEN m1
                                 ELSE [PushInsts(m3, asm_bb_id, <<ret_inst>>)
                                          EXCEPT !.asm_bbs[asm_bb_id].succs = <<>>]
               [] inst.op = "Branch" ->
                    LET m1 == ConvertValue(m, inst.opnds[1], ssa_func_id, asm_bb_id)
                        cond == m1.ret
                        tb == m.bb_map[inst.opnds[2]]
                        fb == m.bb_map[inst.opnds[3]]
                        m2 == ExpandCmpImm(m1, CMPInst(cond, Imm(0)))
                        m3 == PushInsts(m2, asm_bb_id, m2.ret)
                        br_inst == IF tb = NextBlock(m, asm_bb_id) THEN BrInst("EQ", fb)
                                   ELSE IF fb = NextBlock(m, asm_bb_id) THEN BrInst("NE", tb)
                                   ELSE BrInst("NE", tb)
                    IN  IF McFailed(m1) THEN m1
                        ELSE [PushInsts(m3, asm_bb_id, <<br_inst>>)
                                 EXCEPT !.asm_bbs[asm_bb_id].succs = <<tb, fb>>]
               [] OTHER -> McPanic(m, "Unknown Terminator Inst.")

\* McBuilder::process_call_arg (is_lift_double = false); returns call_inst
ProcessCallArg(m, call_inst, op0, loc, asm_bb_id) ==
    LET m1 == IF IsImm(op0)
              THEN LET m2 == GetVreg(m)
                   IN  [PushInsts(m2, asm_bb_id, LoadImm(m2.ret, op0)) EXCEPT !.ret = m2.ret]
              ELSE [m EXCEPT !.ret = op0]
        vreg == m1.ret
    IN  IF McFailed(m) THEN [m EXCEPT !.ret = call_inst]
        ELSE IF loc[1] = "IntReg"
        THEN [m1 EXCEPT !.ret = [call_inst EXCEPT
                                    !.in_constraints = SetConstraint(@, vreg, loc),
                                    !.uses = Append(@, vreg)]]
        ELSE IF IsStackOperand(loc)
        THEN [PushInsts(m1, asm_bb_id, <<AsmInst("STR", <<>>, <<vreg, loc>>)>>)
                 EXCEPT !.ret = call_inst]
        ELSE [m1 EXCEPT !.ret = call_inst]

\* McBuilder::visit_non_term_inst, Call: the loop over the parameters
RECURSIVE CallArgs(_, _, _, _, _, _)
CallArgs(m, call_inst, inst_id, i, ssa_func_id, asm_bb_id) ==
    LET callee == values[inst_id].opnds[1]
    IN  IF McFailed(m) \/ i > Len(values[callee].opnds) THEN [m EXCEPT !.ret = call_inst]
        ELSE LET m1 == ConvertValue(m, values[inst_id].opnds[i + 1], ssa_func_id, asm_bb_id)
                 m2 == ProcessCallArg(m1, call_inst, m1.ret, ArgLoc(i), asm_bb_id)
             IN  CallArgs(m2, m2.ret, inst_id, i + 1, ssa_func_id, asm_bb_id)

\* McBuilder::visit_non_term_inst: the Call arm and the arm of everything that
\* is no non-terminator (a Call has the callee as its first operand and is
\* neither variadic nor a tail call; the callee returns an int unless its tag
\* is "void")
VisitNonTermInst(m, ssa_func_id, inst_id, asm_bb_id) ==
    LET inst == values[inst_id]
    IN  IF McFailed(m) THEN m
        ELSE CASE inst.op = "Call" ->
                    LET m1 == CallArgs(m, AsmInst("Call", <<>>, <<>>), inst_id, 1,
                                       ssa_func_id, asm_bb_id)
                        call_inst == m1.ret
                        m2 == ConvertValue(m1, inst_id, ssa_func_id, asm_bb_id)
                        ret_val == m2.ret
                    IN  IF McFailed(m1) THEN m1
                        ELSE IF values[inst.opnds[1]].tag = "void"
                        THEN PushInsts(m1, asm_bb_id, <<call_inst>>)
                        ELSE PushInsts(m2, asm_bb_id,
                                 <<[call_inst EXCEPT
                                       !.defs = Append(@, ret_val),
                                       !.out_constraints = SetConstraint(@, ret_val, RetReg)]>>)
               [] inst.op \in {"Jump", "Branch", "Return", "Phi"} ->
                    McPanic(m, "not implemented: Unknown non-terminator instruction")

\* McBuilder::build_function, the loop over the parameters: ret = the local
\* `prologue` after the loop
RECURSIVE PrologueParams(_, _, _, _)
PrologueParams(m, prologue, func_id, i) ==
    IF i > Len(values[func_id].opnds) THEN [m EXCEPT !.ret = prologue]
    ELSE LET pv == values[func_id].opnds[i]
             loc == ArgLoc(i)
             m1 == GetVreg(m)
             vreg == m1.ret
         IN  IF loc[1] = "IntReg"
             THEN PrologueParams(VregMapInsert(m1, pv, vreg),
                      [prologue EXCEPT !.out_constraints = SetConstraint(@, vreg, loc),
                                       !.defs = Append(@, vreg)],
                      func_id, i + 1)
             ELSE PrologueParams(m, prologue, func_id, i + 1)

\* McBuilder::build_function, up to the loop over the blocks: the AsmBlocks,
\* bb_map, the Prologue at the head of the entry block, the parameter vregs.
\* alloc_value takes the Prologue by value before the loop over the
\* parameters: the constraints and defs that loop adds go to the local
\* `prologue`, which is dropped, and the instruction in the entry block stays
\* as PrologueInst::new made it.
BuildFunctionStart(m, func_id) ==
    LET bbs == values[func_id].body
        m1 == [m EXCEPT !.asm_bbs = [i \in DOMAIN bbs |-> AsmBlock],
                        !.bb_map = [id \in {bbs[i] : i \in DOMAIN bbs} |->
                                       CHOOSE i \in DOMAIN bbs : bbs[i] = id],
                        !.by = "prologue"]
        prologue == AsmInst("Prologue", <<>>, <<>>)
        entry_id == 1
        m2 == [m1 EXCEPT !.asm_bbs[entry_id].insts = Stamp(m1, <<prologue>>) \o @]
    IN  PrologueParams(m2, prologue, func_id, 1)

(***************************************************************************)
(* The inputs of the McBuilder: a module with one function f of at most    *)
(* MaxBlocks blocks and a callee g(int, int).  The value arena is laid out *)
(* as                                                                      *)
(*   1, 2  the parameters of f      3  a constant                          *)
(*   4, 5  the parameters of g      6  g       7  f                        *)
(*   7 + k                 block k of f                                    *)
(*   PhiId(k, j), CallId(k), TermId(k)   the instructions of block k       *)
(* and a function is described by                                          *)
(*   nparams  0 or 2                                                       *)
(*   terms    per block "none", "Ret", "RetV", "Jump" a, "Br" a b          *)
(*   pb, nphis, styles   the block with phis (0: none), their number, and  *)
(*            per predecessor block what comes in: "init" (parameter j or  *)
(*            the constant into phi j) or "rot" (the next phi of the block *)
(*            into phi j: a swap for two phis, a cycle for more)           *)
(*   cb, cstyle   the block with a call of g (0: none) and its arguments:  *)
(*            "fwd" g(x1, constant), "rev" g(x2, x1), where xj is phi j of *)
(*            the block, else parameter j, else the constant               *)
(***************************************************************************)
MaxBlocks == 3
MaxPhis == 2

IrId == [p |-> <<1, 2>>, const |-> 3, gp |-> <<4, 5>>, g |-> 6, f |-> 7]
BlockId(k) == IrId.f + k
SlotBase(k) == IrId.f + MaxBlocks + (k - 1) * (MaxPhis + 2)
PhiId(k, j) == SlotBase(k) + j
CallId(k) == SlotBase(k) + MaxPhis + 1
TermId(k) == SlotBase(k) + MaxPhis + 2

Term(t, a, b) == [t |-> t, a |-> a, b |-> b]

TermChoices(k, nb) ==
    {Term("Ret", 0, 0)}
    \cup (IF k = 1 THEN {Term("none", 0, 0), Term("RetV", 0, 0)} ELSE {})
    \cup {Term("Jump", a, 0) : a \in 2..nb}
    \cup (IF k < MaxBlocks
          THEN {Term("Br", ab[1], ab[2]) : ab \in {x \in (2..nb) \X (2..nb) : x[1] # x[2]}}
          ELSE {})

Targets(term) ==
    IF term.t = "Jump" THEN {term.a} ELSE IF term.t = "Br" THEN {term.a, term.b} ELSE {}

\* the blocks whose terminator names block k, in layout order
IrPreds(d, k) == SelectSeq([j \in 1..d.nb |-> j], LAMBDA j : k \in Targets(d.terms[j]))

InitValue(d, j) == IF j <= d.nparams THEN IrId.p[j] ELSE IrId.const

OperandOf(d, k, j) == IF k = d.pb /\ j <= d.nphis THEN PhiId(k, j) ELSE InitValue(d, j)

PhiOf(d, k, j) ==
    LET preds == IrPreds(d, k)
        from(i) == IF d.styles[preds[i]] = "init" THEN InitValue(d, j)
                   ELSE PhiId(k, (j % d.nphis) + 1)
    IN  InstValue("Phi",
            [i \in 1..(2 * Len(preds)) |->
                IF i % 2 = 1 THEN from((i + 1) \div 2) ELSE BlockId(preds[i \div 2])],
            "")

CallOf(d, k) ==
    InstValue("Call",
        IF d.cstyle = "fwd" THEN <<IrId.g, OperandOf(d, k, 1), IrId.const>>
        ELSE <<IrId.g, OperandOf(d, k, 2), OperandOf(d, k, 1)>>,
        "")

TermOf(d, k) ==
    LET term == d.terms[k]
    IN  CASE term.t = "Ret" -> InstValue("Return", <<>>, "")
          [] term.t = "RetV" ->
                InstValue("Return", <<IF d.cb = k THEN CallId(k) ELSE InitValue(d, 2)>>, "")
          [] term.t = "Jump" -> InstValue("Jump", <<BlockId(term.a)>>, "")
          [] term.t = "Br" ->
                InstValue("Branch", <<InitValue(d, 1), BlockId(term.a), BlockId(term.b)>>, "")
          [] OTHER -> Value("Unused", "", <<>>, <<>>, "")

BlockOf(d, k) ==
    Value("BasicBlock", "", <<>>,
          (IF k = d.pb THEN [j \in 1..d.nphis |-> PhiId(k, j)] ELSE <<>>)
          \o (IF k = d.cb THEN <<CallId(k)>> ELSE <<>>)
          \o (IF d.terms[k].t = "none" THEN <<>> ELSE <<TermId(k)>>),
          "")

\* the value arena of the module a description stands for
IrModule(d) ==
    [id \in 1..(SlotBase(MaxBlocks) + MaxPhis + 2) |->
        IF id \in {IrId.p[1], IrId.p[2], IrId.gp[1], IrId.gp[2]}
        THEN Value("Variable", "", <<>>, <<>>, "")
        ELSE IF id = IrId.const THEN Value("Const", "", <<>>, <<>>, "")
        ELSE IF id = IrId.g THEN Value("Function", "", IrId.gp, <<>>, "external")
        ELSE IF id = IrId.f
        THEN Value("Function", "", SubSeq(IrId.p, 1, d.nparams),
                   [k \in 1..d.nb |-> BlockId(k)], "")
        ELSE IF \E k \in 1..d.nb : id = BlockId(k)
        THEN BlockOf(d, id - IrId.f)
        ELSE IF \E k \in 1..d.nb : id = TermId(k)
        THEN TermOf(d, CHOOSE k \in 1..d.nb : id = TermId(k))
        ELSE IF d.cb # 0 /\ id = CallId(d.cb) THEN CallOf(d, d.cb)
        ELSE IF \E j \in 1..d.nphis : d.pb # 0 /\ id = PhiId(d.pb, j)
        THEN PhiOf(d, d.pb, CHOOSE j \in 1..d.nphis : id = PhiId(d.pb, j))
        ELSE Value("Unused", "", <<>>, <<>>, "")]

\* what may come into the phis of block k: "rot" only from a predecessor
StylesFor(nb, terms, k) ==
    {st \in [1..nb -> {"init", "rot"}] :
        \A j \in 1..nb : st[j] = "rot" => k \in Targets(terms[j])}

\* the descriptions of the functions with nb blocks whose terminators are terms
Descriptions(nb, terms) ==
    {[nparams |-> np, nb |-> nb, terms |-> terms, pb |-> ph.pb, nphis |-> ph.nphis,
      styles |-> ph.styles, cb |-> c.cb, cstyle |-> c.cstyle] :
        np \in {0, 2},
        ph \in {[pb |-> 0, nphis |-> 0, styles |-> [j \in 1..nb |-> "init"]]}
               \cup UNION {{[pb |-> k, nphis |-> n, styles |-> st] :
                                n \in 1..MaxPhis, st \in StylesFor(nb, terms, k)} :
                           k \in 2..nb},
        c \in {[cb |-> 0, cstyle |-> "fwd"]}
              \cup {[cb |-> k, cstyle |-> cs] : k \in 1..nb, cs \in {"fwd", "rev"}}}

(***************************************************************************)
(* SpecMC: mc_builder::build on one function, step by step.                *)
(***************************************************************************)
TheMcBuilder ==
    [asm_bbs |-> asm_bbs, bb_map |-> bb_map, vreg_map |-> vreg_map, vreg_idx |-> vreg_idx,
     failure |-> failure, mc_log |-> mc_log, by |-> "inst", ret |-> 0]

McBecomes(m) ==
    /\ asm_bbs' = m.asm_bbs
    /\ bb_map' = m.bb_map
    /\ vreg_map' = m.vreg_map
    /\ vreg_idx' = m.vreg_idx
    /\ failure' = m.failure
    /\ mc_log' = m.mc_log
    /\ UNCHANGED <<values, functions, global_variables, sym2def, cur_func, cur_bb,
                   loop_stack, syms, log, ast, nodes, pc>>
    /\ UNCHANGED <<asm_values, globals, bss_globals>>

\* the function being lowered, the block and the instruction build_block is at
SsaFunc == functions[1]
SsaBb == values[SsaFunc].body[mc_pc.bb]
SsaInst == values[SsaBb].body[mc_pc.inst]
AtInst == mc_pc.stage = "blocks" /\ failure = "none" /\ mc_pc.inst <= Len(values[SsaBb].body)

\* McBuilder::new on the module ir_builder::build returned
InitMC ==
    /\ \E nb \in 1..MaxBlocks :
          \E terms \in {t \in [1..nb -> TermChoices(1, nb) \cup TermChoices(2, nb)
                                          \cup TermChoices(MaxBlocks, nb)] :
                           \A k \in 1..nb : t[k] \in TermChoices(k, nb)} :
              \E d \in Descriptions(nb, terms) : values = IrModule(d)
    /\ functions = <<IrId.f>>
    /\ global_variables = <<>>
    /\ sym2def = <<>>
    /\ cur_func = 0
    /\ cur_bb = 0
    /\ loop_stack = <<>>
    /\ failure = "none"
    /\ syms = 0
    /\ log = <<>>
    /\ ast = [var_decls |-> <<>>, func_decls |-> <<>>]
    /\ nodes = 0
    /\ pc = "done"
    /\ asm_values = <<>>
    /\ globals = <<>>
    /\ bss_globals = <<>>
    /\ asm_bbs = <<>>
    /\ bb_map = <<>>
    /\ vreg_map = <<>>
    /\ vreg_idx = 0
    /\ mc_log = <<>>
    /\ mc_pc = [stage |-> "start", bb |-> 0, inst |-> 0]

\* build_function up to its first loop over the blocks
McStart ==
    /\ mc_pc.stage = "start"
    /\ McBecomes(BuildFunctionStart(TheMcBuilder, SsaFunc))
    /\ mc_pc' = [stage |-> "blocks", bb |-> 1, inst |-> 1]

\* build_block: a phi is skipped
McSkipPhi ==
    /\ AtInst
    /\ IsPhi(values[SsaInst])
    /\ mc_pc' = [mc_pc EXCEPT !.inst = @ + 1]
    /\ UNCHANGED <<irvars, asm_values, globals, bss_globals,
                   asm_bbs, bb_map, vreg_map, vreg_idx, mc_log>>

\* build_block: a non-terminator goes to visit_non_term_inst
McVisitNonTermInst ==
    /\ AtInst
    /\ ~IsPhi(values[SsaInst]) /\ ~IsTerm(values[SsaInst])
    /\ McBecomes(VisitNonTermInst(TheMcBuilder, SsaFunc, SsaInst, bb_map[SsaBb]))
    /\ mc_pc' = [mc_pc EXCEPT !.inst = @ + 1]

\* build_block: a terminator goes to visit_term_inst
McVisitTermInst ==
    /\ AtInst
    /\ IsTerm(values[SsaInst])
    /\ McBecomes(VisitTermInst(TheMcBuilder, SsaFunc, SsaInst, SsaBb, bb_map[SsaBb]))
    /\ mc_pc' = [mc_pc EXCEPT !.stage = "after_term"]

\* build_block: control falls out of the "if inst_value.is_term()" and the
\* terminator goes to visit_non_term_inst as well
McFallThrough ==
    /\ mc_pc.stage = "after_term"
    /\ failure = "none"
    /\ McBecomes(VisitNonTermInst(TheMcBuilder, SsaFunc, SsaInst, bb_map[SsaBb]))
    /\ mc_pc' = [mc_pc EXCEPT !.stage = "blocks", !.inst = @ + 1]

\* build_function: build_block has returned; the next block, or the phi loop
McNextBlock ==
    /\ mc_pc.stage = "blocks"
    /\ failure = "none"
    /\ mc_pc.inst > Len(values[SsaBb].body)
    /\ mc_pc' = IF mc_pc.bb < Len(values[SsaFunc].body)
                THEN [stage |-> "blocks", bb |-> mc_pc.bb + 1, inst |-> 1]
                ELSE [stage |-> "phis", bb |-> 1, inst |-> 0]
    /\ UNCHANGED <<irvars, asm_values, globals, bss_globals,
                   asm_bbs, bb_map, vreg_map, vreg_idx, mc_log>>

\* build_function: one round of the loop that resolves the phis
McPhis ==
    /\ mc_pc.stage = "phis"
    /\ failure = "none"
    /\ McBecomes(IF GetPhis(SsaBb) # <<>>
                 THEN VisitPhis(TheMcBuilder, GetPhis(SsaBb), SsaFunc, bb_map[SsaBb])
                 ELSE TheMcBuilder)
    /\ mc_pc' = IF mc_pc.bb < Len(values[SsaFunc].body)
                THEN [mc_pc EXCEPT !.bb = @ + 1]
                ELSE [stage |-> "done", bb |-> 0, inst |-> 0]

NextMC ==
    \/ McStart
    \/ McSkipPhi
    \/ McVisitNonTermInst
    \/ McVisitTermInst
    \/ McFallThrough
    \/ McNextBlock
    \/ McPhis

SpecMC == InitMC /\ [][NextMC]_vars

(***************************************************************************)
(* SpecMCDispatch: the handlers behind build_block's dispatch.  In SpecMC  *)
(* every terminator ends the run in McFallThrough, so nothing that follows *)
(* the first terminator of a function is ever reached; here build_block    *)
(* goes on to the next instruction after visit_term_inst, which brings     *)
(* visit_phis and make_parallel_movs within reach.                         *)
(***************************************************************************)
McResume ==
    /\ mc_pc.stage = "after_term"
    /\ failure = "none"
    /\ mc_pc' = [mc_pc EXCEPT !.stage = "blocks", !.inst = @ + 1]
    /\ UNCHANGED <<irvars, asm_values, globals, bss_globals,
                   asm_bbs, bb_map, vreg_map, vreg_idx, mc_log>>

NextMCDispatch ==
    \/ McStart
    \/ McSkipPhi
    \/ McVisitNonTermInst
    \/ McVisitTermInst
    \/ McResume
    \/ McNextBlock
    \/ McPhis

SpecMCDispatch == InitMC /\ [][NextMCDispatch]_vars

(***************************************************************************)
(* SpecGlobals: McBuilder::build_global_variables on the module that       *)
(* ir_builder::build returned for a translation unit of global variables.  *)
(***************************************************************************)
\* global variables of the translation unit
MaxGlobals == 4

RECURSIVE BuildGlobalVariables(_, _)
\* Builder::build_module, the loop over ast.var_decls
BuildGlobalVariables(b, var_decls) ==
    IF var_decls = <<>> THEN b
    ELSE BuildGlobalVariables(BuildGlobalVariable(b, Head(var_decls)), Tail(var_decls))

\* AsmGlobalVariable::from(global): the AsmModule's value for an IR global
AsmGlobalVariable(id) == [kind |-> "GlobalVariable", global |-> id]

\* the IR globals build_global_variables has not come to yet
GlobalsLeft ==
    {global_variables[j] : j \in DOMAIN global_variables}
        \ {asm_values[v].global : v \in DOMAIN asm_values}

\* McBuilder::new on the module of a translation unit that was lowered
\* without failure
InitGlobals ==
    /\ \E n \in 0..MaxGlobals :
          \E var_decls \in [1..n -> GlobalDecls] :
             LET b == BuildGlobalVariables(NewBuilder, var_decls)
             IN  /\ ~Failed(b)
                 /\ values = b.values
                 /\ global_variables = b.global_variables
                 /\ sym2def = b.sym2def
                 /\ syms = b.syms
                 /\ ast = [var_decls |-> var_decls, func_decls |-> <<>>]
                 /\ nodes = n
    /\ functions = <<>>
    /\ cur_func = 0
    /\ cur_bb = 0
    /\ loop_stack = <<>>
    /\ failure = "none"
    /\ log = <<>>
    /\ pc = "done"
    /\ asm_values = <<>>
    /\ globals = <<>>
    /\ bss_globals = <<>>
    /\ asm_bbs = <<>>
    /\ bb_map = <<>>
    /\ vreg_map = <<>>
    /\ vreg_idx = 0
    /\ mc_log = <<>>
    /\ mc_pc = [stage |-> "globals", bb |-> 0, inst |-> 0]

\* build_global_variables, one round of the loop over ir_module.global_variables
\* (a map: the order of the rounds is not fixed)
McBuildGlobalVariable ==
    /\ mc_pc.stage = "globals"
    /\ \E id \in GlobalsLeft :
          LET global == values[id]
              val == AsmGlobalVariable(id)
              val_id == Len(asm_values) + 1
          IN  /\ asm_values' = Append(asm_values, val)
              /\ IF global.opnds # <<>>
                 THEN bss_globals' = Append(bss_globals, val_id) /\ UNCHANGED globals
                 ELSE globals' = Append(globals, val_id) /\ UNCHANGED bss_globals
    /\ UNCHANGED <<irvars, asm_bbs, bb_map, vreg_map, vreg_idx, mc_log, mc_pc>>

\* build_global_variables returns; build_functions is next
McGlobalVariablesDone ==
    /\ mc_pc.stage = "globals"
    /\ GlobalsLeft = {}
    /\ mc_pc' = [mc_pc EXCEPT !.stage = "functions"]
    /\ UNCHANGED <<irvars, asm_values, globals, bss_globals,
                   asm_bbs, bb_map, vreg_map, vreg_idx, mc_log>>

NextGlobals == McBuildGlobalVariable \/ McGlobalVariablesDone

SpecGlobals == InitGlobals /\ [][NextGlobals]_vars

(***************************************************************************)
(* Properties of the MC builder.                                           *)
(***************************************************************************)
InSeq(seq, x) == \E i \in DOMAIN seq : seq[i] = x
AsmInsts == UNION {{asm_bbs[b].insts[i] : i \in DOMAIN asm_bbs[b].insts} : b \in DOMAIN asm_bbs}
McEvents(ev) == {i \in DOMAIN mc_log : mc_log[i].ev = ev}

\* the blocks the terminator of an IR block names
IrSuccs(bb) ==
    LET insts == values[bb].body
    IN  IF insts = <<>> THEN {}
        ELSE LET t == values[Last(insts)]
             IN  IF IsInst(t, "Jump") THEN {t.opnds[1]}
                 ELSE IF IsInst(t, "Branch") THEN {t.opnds[2], t.opnds[3]}
                 ELSE {}
\* the AsmBlocks whose IR block names the IR block of asm block b
IrPredsOf(b) == {p \in DOMAIN asm_bbs : \E bb \in DOMAIN bb_map :
                    /\ bb_map[bb] = p
                    /\ \E tgt \in IrSuccs(bb) : bb_map[tgt] = b}
IrSuccsOf(p) == {bb_map[tgt] : tgt \in UNION {IrSuccs(bb) : bb \in {x \in DOMAIN bb_map : bb_map[x] = p}}}

\* the IR blocks control can reach from the blocks of S
RECURSIVE IrReach(_)
IrReach(S) ==
    LET T == S \cup UNION {IrSuccs(bb) : bb \in S}
    IN  IF T = S THEN S ELSE IrReach(T)

\* the IR blocks control can reach from the blocks of S without entering D
RECURSIVE IrReachAvoiding(_, _)
IrReachAvoiding(S, D) ==
    LET T == S \cup (UNION {IrSuccs(bb) : bb \in S} \ {D})
    IN  IF T = S THEN S ELSE IrReachAvoiding(T, D)

\* every path from the entry block to block P runs through block D
IrDominates(D, P) ==
    LET entry == values[SsaFunc].body[1]
    IN  P = D \/ (D # entry /\ P \notin IrReachAvoiding({entry}, D)) \/ D = entry

\* the function handed to the MC builder is well formed: every block ends in a
\* terminator and can be reached from the entry block, every phi has one
\* incoming value for each block that names its block, and an instruction
\* that is an operand is defined earlier in the block or in a dominating one
IrWellFormed ==
    LET blocks == values[SsaFunc].body
        all == {blocks[k] : k \in DOMAIN blocks}
        Defined(id, bb, before) ==
            \E D \in all : \E j \in DOMAIN values[D].body :
                /\ values[D].body[j] = id
                /\ IF D = bb /\ before > 0 THEN j < before ELSE IrDominates(D, bb)
    IN  /\ \A bb \in all : values[bb].body # <<>> /\ IsTerm(values[Last(values[bb].body)])
        /\ all \subseteq IrReach({blocks[1]})
        /\ \A bb \in all : \A i \in DOMAIN values[bb].body :
               LET inst == values[values[bb].body[i]]
               IN  IF IsPhi(inst)
                   THEN LET inc == Incomings(values[bb].body[i])
                            from == {inc[k][2] : k \in DOMAIN inc}
                        IN  /\ from = {p \in all : bb \in IrSuccs(p)}
                            /\ Len(inc) = Cardinality(from)
                            /\ \A k \in DOMAIN inc :
                                   values[inc[k][1]].kind = "Inst" =>
                                       Defined(inc[k][1], inc[k][2], 0)
                   ELSE \A k \in DOMAIN inst.opnds :
                            values[inst.opnds[k]].kind = "Inst" =>
                                Defined(inst.opnds[k], bb, i)

\* C4: once visit_term_inst has lowered the terminator of a block P of a well
\* formed function, P lists B
\* among its successors exactly if B lists P among its predecessors, and a
\* block that ends in Return has no successors.
C4_PredSuccSymmetric ==
    (IrWellFormed /\ mc_pc.stage = "after_term" /\ failure = "none") =>
        LET P == bb_map[SsaBb]
        IN  /\ \A B \in DOMAIN asm_bbs :
                   InSeq(asm_bbs[P].succs, B) <=> InSeq(asm_bbs[B].preds, P)
            /\ IsInst(values[SsaInst], "Return") => asm_bbs[P].succs = <<>>

\* the physical registers the constraints of the instructions pin a vreg to
PinnedTo(vreg) ==
    {c[2] : c \in {x \in UNION {inst.in_constraints \cup inst.out_constraints :
                                   inst \in AsmInsts} : x[1] = vreg}}

ValueIn(env, op) == IF op \in DOMAIN env THEN env[op] ELSE op
RECURSIVE Run(_, _)
Run(insts, env) ==
    IF insts = <<>> THEN env
    ELSE LET i == Head(insts)
         IN  Run(Tail(insts),
                 IF i.defs = <<>> THEN env
                 ELSE [op \in DOMAIN env \cup {i.defs[1]} |->
                          IF op = i.defs[1] THEN ValueIn(env, i.uses[1]) ELSE env[op]])

DistinctDests(movs) == \A i, j \in DOMAIN movs : i # j => movs[i][1] # movs[j][1]

C19_GlobalsPartition ==
    mc_pc.stage = "functions" =>
        \A j \in DOMAIN global_variables :
            LET id == global_variables[j]
                vals == {v \in DOMAIN asm_values : asm_values[v].global = id}
            IN  /\ Cardinality(vals) = 1
                /\ \A v \in vals :
                       IF values[id].opnds # <<>>
                       THEN InSeq(globals, v) /\ ~InSeq(bss_globals, v)
                       ELSE InSeq(bss_globals, v) /\ ~InSeq(globals, v)

\* C20: once build_function has set up the function, the first instruction of
\* the entry AsmBlock is the Prologue; its defs are exactly the virtual
\* registers of the parameters that arrive in registers, and its
\* out-constraints pin exactly these to the registers the calling convention
\* gives them; a parameter that arrives on the stack has no virtual register
\* yet.
C20_PrologueDefs ==
    (IrWellFormed /\ mc_pc.stage \in {"blocks", "after_term", "phis", "done"}) =>
        LET params == values[SsaFunc].opnds
            in_reg == {i \in DOMAIN params : ~IsStackOperand(ArgLoc(i))}
            entry == asm_bbs[1].insts
        IN  /\ entry # <<>>
            /\ entry[1].op = "Prologue"
            /\ \A i \in in_reg : params[i] \in DOMAIN vreg_map
            /\ Len(entry[1].defs) = Cardinality(in_reg)
            /\ {entry[1].defs[k] : k \in DOMAIN entry[1].defs}
                   = {vreg_map[params[i]] : i \in in_reg}
            /\ entry[1].out_constraints
                   = {<<vreg_map[params[i]], ArgLoc(i)>> : i \in in_reg}
            /\ mc_pc.stage = "blocks" /\ mc_pc.bb = 1 /\ mc_pc.inst = 1 =>
                   \A i \in DOMAIN params \ in_reg : params[i] \notin DOMAIN vreg_map

\* C27: lowering a well-formed function never reaches the "unknown
\* instruction" failure of the non-terminator lowering: a terminator is handled
\* by visit_term_inst only.
C27_TerminatorNotToNonTermLowering ==
    IrWellFormed => failure # "not implemented: Unknown non-terminator instruction"

\* C28: virtual register indices are never reused: every vreg that
\* convert_value has assigned to an IR value lies below vreg_idx, the index
\* the next get_vreg hands out, and no two IR values share a vreg (the
\* functions lowered hold no casts).
C28_VregsNeverReused ==
    IrWellFormed =>
        /\ \A id \in DOMAIN vreg_map : vreg_map[id][2] < vreg_idx
        /\ \A id1, id2 \in DOMAIN vreg_map : vreg_map[id1] = vreg_map[id2] => id1 = id2

\* the blocks a Jump or Branch names
TermTargets(v) ==
    IF IsInst(v, "Jump") THEN {v.opnds[1]}
    ELSE IF IsInst(v, "Branch") THEN {v.opnds[2], v.opnds[3]}
    ELSE {}

\* C29: in a module that was built without failure, every Jump and Branch
\* stands in a block of exactly one function, each block it names is in the
\* block list of that function (the domain of the bb_map the MC builder makes
\* for it), and no block stands twice in a block list or in two lists.
C29_TargetsInBlockList ==
    failure = "none" =>
        /\ \A f \in FunctionIds :
              \A i, j \in DOMAIN values[f].body :
                  values[f].body[i] = values[f].body[j] => i = j
        /\ \A f, g \in FunctionIds : f # g => BlocksOf(f) \cap BlocksOf(g) = {}
        /\ \A bb \in AllBlocks :
              \A k \in DOMAIN values[bb].body :
                  LET v == values[values[bb].body[k]]
                  IN  TermTargets(v) # {} =>
                          \E f \in FunctionIds :
                              /\ bb \in BlocksOf(f)
                              /\ TermTargets(v) \subseteq BlocksOf(f)

\* C29 witness: a function with a while loop whose body is an if with a
\* short-circuit condition has been built: its end block, exit block and next
\* block are jump or branch targets.
C29_Witness ==
    /\ pc = "done"
    /\ failure = "none"
    /\ \E i \in Events("While") : log[i].failure = "none"
    /\ \E i \in Events("IfElse") :
          /\ IsShortCircuit(log[i].stmt.cond)
          /\ log[i].frames # <<>>
          /\ Last(log[i].frames).kind = "While"

\* C30: the loop stack is balanced: a statement that was lowered without
\* failure leaves loop_stack as it found it; while a statement of a loop body
\* is lowered, the top entry of loop_stack holds the end block of the
\* innermost loop being lowered as the break target (and, for a while loop, its
\* condition block as the continue target); between the functions of a module
\* loop_stack is empty.
C30_LoopStackBalanced ==
    /\ \A i \in DOMAIN log :
          LET e == log[i]
          IN  /\ e.failure = "none" => e.loop_stack_after = e.loop_stack
              /\ e.frames # <<>> =>
                    /\ e.loop_stack # <<>>
                    /\ Last(e.loop_stack)[1] = Last(e.frames).end_bb
                    /\ Last(e.frames).kind = "While" =>
                           Last(e.loop_stack)[2] = Last(e.frames).cond_bb
    /\ (failure = "none" /\ pc \in {"globals", "functions", "done"}) => loop_stack = <<>>

\* the Calls of an IR block, and the Call instructions of an AsmBlock
IrCalls(bb) == {values[bb].body[k] : k \in {j \in DOMAIN values[bb].body :
                                               IsInst(values[values[bb].body[j]], "Call")}}
AsmCalls(B) == {j \in DOMAIN asm_bbs[B].insts : asm_bbs[B].insts[j].op = "Call"}

MaxLayout == 4

LayoutTermId(k) == IrId.f + MaxLayout + k

\* the terminators block k may end in
LayoutTerms(k) ==
    {Term("Br", ab[1], ab[2]) :
        ab \in {x \in (2..MaxLayout) \X (2..MaxLayout) : x[1] # x[2] /\ k < MaxLayout}}
    \cup (IF k > 1 THEN {Term("Ret", 0, 0)} \cup {Term("Jump", a, 0) : a \in 2..MaxLayout}
          ELSE {})

\* the value arena of the function a description stands for
LayoutModule(d) ==
    [id \in 1..LayoutTermId(MaxLayout) |->
        IF id \in {IrId.p[1], IrId.p[2]} THEN Value("Variable", "", <<>>, <<>>, "")
        ELSE IF id = IrId.const THEN Value("Const", "", <<>>, <<>>, "")
        ELSE IF id = IrId.f
        THEN Value("Function", "", SubSeq(IrId.p, 1, d.nparams),
                   [k \in 1..MaxLayout |-> BlockId(k)], "")
        ELSE IF \E k \in 1..MaxLayout : id = BlockId(k)
        THEN Value("BasicBlock", "", <<>>, <<LayoutTermId(id - IrId.f)>>, "")
        ELSE IF \E k \in 1..MaxLayout : id = LayoutTermId(k)
        THEN TermOf(d, id - IrId.f - MaxLayout)
        ELSE Value("Unused", "", <<>>, <<>>, "")]

\* McBuilder::new on a module with such a function
InitBranch ==
    /\ \E terms \in {t \in [1..MaxLayout -> UNION {LayoutTerms(k) : k \in 1..MaxLayout}] :
                         \A k \in 1..MaxLayout : t[k] \in LayoutTerms(k)} :
          \E np \in {0, 2} :
              values = LayoutModule([nparams |-> np, nb |-> MaxLayout, terms |-> terms, cb |-> 0])
    /\ functions = <<IrId.f>>
    /\ global_variables = <<>>
    /\ sym2def = <<>>
    /\ cur_func = 0
    /\ cur_bb = 0
    /\ loop_stack = <<>>
    /\ failure = "none"
    /\ syms = 0
    /\ log = <<>>
    /\ ast = [var_decls |-> <<>>, func_decls |-> <<>>]
    /\ nodes = 0
    /\ pc = "done"
    /\ asm_values = <<>>
    /\ globals = <<>>
    /\ bss_globals = <<>>
    /\ asm_bbs = <<>>
    /\ bb_map = <<>>
    /\ vreg_map = <<>>
    /\ vreg_idx = 0
    /\ mc_log = <<>>
    /\ mc_pc = [stage |-> "start", bb |-> 0, inst |-> 0]

\* the blocks hold terminators only
NextBranch ==
    \/ McStart
    \/ McVisitTermInst
    \/ McResume
    \/ McNextBlock
    \/ McPhis

SpecBranch == InitBranch /\ [][NextBranch]_vars

\* where the lowered code of an AsmBlock that ends in CMP ; Br goes when the
\* compared register is non-zero (nonzero = TRUE) or zero: the target of the
\* Br when its condition holds, the block that follows in layout order when
\* it does not
BrDest(B, nonzero) ==
    LET br == Last(asm_bbs[B].insts)
    IN  IF br.cond = "AL" \/ (br.cond = "NE") = nonzero
        THEN br.target
        ELSE IF B < Len(asm_bbs) THEN B + 1 ELSE 0

\* C25: the code lowered from Branch(cond, T, F) ends with a CMP against #0
\* and a Br, and it goes to the block of T when cond is non-zero and to the
\* block of F when cond is zero, wherever T and F are in the layout.
C25_BranchTransfers ==
    IrWellFormed =>
        \A bb \in DOMAIN bb_map :
            LET B == bb_map[bb]
                insts == asm_bbs[B].insts
                t == values[Last(values[bb].body)]
            IN  (/\ values[bb].body # <<>>
                 /\ IsInst(t, "Branch")
                 /\ insts # <<>>
                 /\ Last(insts).op = "Br") =>
                    /\ Len(insts) >= 2
                    /\ insts[Len(insts) - 1].op = "CMP"
                    /\ insts[Len(insts) - 1].uses[2] = Imm(0)
                    /\ BrDest(B, TRUE) = bb_map[t.opnds[2]]
                    /\ BrDest(B, FALSE) = bb_map[t.opnds[3]]

(***************************************************************************)
(* SpecExpand: the expansions of one machine instruction.  The block holds *)
(* the instruction; an expansion puts the instructions it returns in its   *)
(* place, the given instruction with its new uses last.                    *)
(***************************************************************************)
\* IntReg kinds behind R0..R12 (mc.rs RegType), and a VFP register
RegFp == IntReg(13)
RegSp == IntReg(14)
RegIp == IntReg(15)
VfpReg(n) == <<"VfpReg", n>>

\* StackOperand { ty, offset }
StackOperandTypes == {"SelfArg", "Local", "Spill", "CallParam"}
StackOperandOf(ty, offset) == <<"StackOperand", offset, ty>>

\* mc_inst::BinaryOp and BinOpInst::new(op, dst, lhs, rhs)
BinaryOps == {"ADD", "SUB", "MUL"}
BinOpInst(op, dst, lhs, rhs) == AsmInst(op, <<dst>>, <<lhs, rhs>>)

\* AsmInst::is_imm_fit: the offset of an LDR / STR has 12 bits, that of a
\* VLDR / VSTR is a multiple of 4 of 8 bits
IsImmFit(inst, so) ==
    IF inst.op \in {"LDR", "STR"} THEN so[2] <= 4095
    ELSE so[2] <= 1020 /\ so[2] % 4 = 0

\* expand_bin_op keeping an immediate on the right under every operator
ExpandBinOpAnyOperator(m, bin_inst) ==
    IF bin_inst.op \notin BinaryOps
    THEN McPanic(m, "called Option::unwrap() on a None value")
    ELSE LET op1 == bin_inst.uses[1]
             op2 == bin_inst.uses[2]
             m1 == IF IsImm(op1) THEN GetVreg(m) ELSE m
             new1 == IF IsImm(op1) THEN m1.ret ELSE op1
             ret1 == IF IsImm(op1) THEN LoadImm(new1, op1) ELSE <<>>
             load2 == IsImm(op2) /\ HighestOneBit(op2[2]) >= 255
             m2 == IF load2 THEN GetVreg(m1) ELSE m1
             new2 == IF load2 THEN m2.ret ELSE op2
             ret2 == IF load2 THEN LoadImm(new2, op2) ELSE <<>>
         IN  [m2 EXCEPT !.ret = (ret1 \o ret2)
                                   \o <<[bin_inst EXCEPT !.uses = <<new1, new2>>]>>]

\* McBuilder::expand_bin_op; returns the instructions, the given one last
ExpandBinOp(m, bin_inst) ==
    IF bin_inst.op \notin BinaryOps
    THEN McPanic(m, "called Option::unwrap() on a None value")
    ELSE LET op1 == bin_inst.uses[1]
             op2 == bin_inst.uses[2]
             m1 == IF IsImm(op1) THEN GetVreg(m) ELSE m
             new1 == IF IsImm(op1) THEN m1.ret ELSE op1
             ret1 == IF IsImm(op1) THEN LoadImm(new1, op1) ELSE <<>>
             load2 == /\ IsImm(op2)
                      /\ (bin_inst.op \notin {"ADD", "SUB"} \/ HighestOneBit(op2[2]) >= 255)
             m2 == IF load2 THEN GetVreg(m1) ELSE m1
             new2 == IF load2 THEN m2.ret ELSE op2
             ret2 == IF load2 THEN LoadImm(new2, op2) ELSE <<>>
         IN  [m2 EXCEPT !.ret = (ret1 \o ret2)
                                   \o <<[bin_inst EXCEPT !.uses = <<new1, new2>>]>>]

\* McBuilder::expand_stack_operand; returns the operand to use and the
\* instructions that must come first
ExpandStackOperand(m, inst, op) ==
    IF ~IsStackOperand(op) \/ IsImmFit(inst, op)
    THEN [m EXCEPT !.ret = [op |-> op, insts |-> <<>>]]
    ELSE LET m1 == GetVreg(m)
             tmp == m1.ret
             m2 == GetVreg(m1)
             tmp2 == m2.ret
             load == LoadImm(tmp, Imm(op[2]))
             Sum(bop, base) ==
                 [m2 EXCEPT !.ret = [op |-> tmp2,
                                     insts |-> Append(load, BinOpInst(bop, tmp2, base, tmp))]]
         IN  IF op[3] = "Spill"
             THEN McPanic(m2, "assertion failed: so.ty != StackOperandType::Spill")
             ELSE CASE op[3] = "SelfArg" -> Sum("ADD", RegFp)
                    [] op[3] = "Local" -> Sum("SUB", RegFp)
                    [] op[3] = "CallParam" -> Sum("ADD", RegSp)
                    [] OTHER -> McPanic(m2, "Unsupported operation")

\* McBuilder::expand_stack_operand_load_store
ExpandStackOperandLoadStore(m, inst) ==
    IF inst.op \notin {"LDR", "STR", "VSTR", "VLDR"}
    THEN McPanic(m, "assertion failed: inst.is_ldr() || inst.is_str() || inst.is_vstr() || inst.is_vldr()")
    ELSE LET is_store == inst.op \in {"STR", "VSTR"}
             m1 == ExpandStackOperand(m, inst, inst.uses[IF is_store THEN 2 ELSE 1])
             newuse == IF is_store THEN <<inst.uses[1], m1.ret.op>> ELSE <<m1.ret.op>>
         IN  IF McFailed(m1) THEN m1
             ELSE [m1 EXCEPT !.ret = Append(m1.ret.insts, [inst EXCEPT !.uses = newuse])]

\* expand_stack_operand_ip taking fresh vregs as expand_stack_operand does
ExpandStackOperandIpFreshVregs(m, inst, op, target) == ExpandStackOperand(m, inst, op)

\* McBuilder::expand_stack_operand_ip
ExpandStackOperandIp(m, inst, op, target) ==
    IF ~IsStackOperand(op) \/ IsImmFit(inst, op)
    THEN [m EXCEPT !.ret = [op |-> op, insts |-> <<>>]]
    ELSE LET tmp == RegIp
             tmp2 == RegIp
             load == LoadImm(tmp, Imm(op[2]))
             Sum(bop, base) ==
                 [m EXCEPT !.ret = [op |-> tmp2,
                                    insts |-> Append(load, BinOpInst(bop, tmp2, base, tmp))]]
         IN  IF target[1] \notin {"IntReg", "VfpReg"}
             THEN McPanic(m, "assertion failed: matches!(target, AsmOperand::IntReg(_) | AsmOperand::VfpReg(_))")
             ELSE CASE op[3] = "SelfArg" -> Sum("ADD", RegFp)
                    [] op[3] \in {"Local", "Spill"} -> Sum("SUB", RegFp)
                    [] op[3] = "CallParam" -> Sum("ADD", RegSp)
                    [] OTHER -> McPanic(m, "Unsupported operation")

\* McBuilder::expand_stack_operand_load_store_ip
ExpandStackOperandLoadStoreIp(m, inst) ==
    IF inst.op \notin {"LDR", "STR", "VSTR", "VLDR"}
    THEN McPanic(m, "assertion failed: matches!(inst, AsmInst::LDR(_) | AsmInst::STR(_) | AsmInst::VSTR(_) | AsmInst::VLDR(_))")
    ELSE LET is_store == inst.op \in {"STR", "VSTR"}
             m1 == IF is_store
                   THEN ExpandStackOperandIp(m, inst, inst.uses[2], inst.uses[1])
                   ELSE ExpandStackOperandIp(m, inst, inst.uses[1], inst.defs[1])
             newuse == IF is_store THEN <<inst.uses[1], m1.ret.op>> ELSE <<m1.ret.op>>
         IN  IF McFailed(m1) THEN m1
             ELSE [m1 EXCEPT !.ret = Append(m1.ret.insts, [inst EXCEPT !.uses = newuse])]

\* the operands and instructions drawn: immediates and offsets on both sides
\* of what an encoding takes
ImmValues == {0, 255, 256, 1020}
Offsets == {0, 1020, 1024, 4095, 4096}
ExpandOperands == {VirtReg(0), IntReg(0)} \cup {Imm(v) : v \in ImmValues}
StackOperands == {StackOperandOf(ty, off) : ty \in StackOperandTypes, off \in Offsets}
ExpandInsts ==
    {BinOpInst(op, VirtReg(1), lhs, rhs) :
        op \in BinaryOps, lhs \in ExpandOperands, rhs \in ExpandOperands}
    \cup {CMPInst(lhs, rhs) : lhs \in ExpandOperands, rhs \in ExpandOperands}
    \cup {MovInst(VirtReg(1), src) : src \in ExpandOperands}
    \cup {AsmInst("LDR", <<dst>>, <<so>>) : dst \in {VirtReg(1), IntReg(0)}, so \in StackOperands}
    \cup {AsmInst("VLDR", <<dst>>, <<so>>) : dst \in {VirtReg(1), VfpReg(0)}, so \in StackOperands}
    \cup {AsmInst("STR", <<>>, <<val, so>>) : val \in {VirtReg(1), IntReg(0)}, so \in StackOperands}
    \cup {AsmInst("VSTR", <<>>, <<val, so>>) : val \in {VirtReg(1), VfpReg(0)}, so \in StackOperands}

\* a builder whose block holds one instruction; v0 and v1 are handed out
InitExpand ==
    /\ \E inst \in ExpandInsts : asm_bbs = <<[AsmBlock EXCEPT !.insts = <<inst>>]>>
    /\ vreg_idx = 2
    /\ values = <<>>
    /\ functions = <<>>
    /\ global_variables = <<>>
    /\ sym2def = <<>>
    /\ cur_func = 0
    /\ cur_bb = 0
    /\ loop_stack = <<>>
    /\ failure = "none"
    /\ syms = 0
    /\ log = <<>>
    /\ ast = [var_decls |-> <<>>, func_decls |-> <<>>]
    /\ nodes = 0
    /\ pc = "done"
    /\ asm_values = <<>>
    /\ globals = <<>>
    /\ bss_globals = <<>>
    /\ bb_map = <<>>
    /\ vreg_map = <<>>
    /\ mc_log = <<>>
    /\ mc_pc = [stage |-> "expand", bb |-> 1, inst |-> 1]

\* the instruction to expand
TheInst == asm_bbs[1].insts[1]

\* what an expansion leaves: its instructions in the block, and a note of
\* the call
Expanded(fn, m) ==
    [(IF McFailed(m) THEN m ELSE [m EXCEPT !.asm_bbs[1].insts = m.ret])
        EXCEPT !.mc_log = <<[ev |-> fn, inst |-> TheInst, vreg_idx |-> vreg_idx]>>]

McExpandBinOp ==
    /\ mc_pc.stage = "expand"
    /\ McBecomes(Expanded("expand_bin_op", ExpandBinOp(TheMcBuilder, TheInst)))
    /\ mc_pc' = [mc_pc EXCEPT !.stage = "expanded"]

McExpandCmpImm ==
    /\ mc_pc.stage = "expand"
    /\ McBecomes(Expanded("expand_cmp_imm",
                          IF Len(TheInst.uses) < 2
                          THEN McPanic(TheMcBuilder, "index out of bounds")
                          ELSE ExpandCmpImm(TheMcBuilder, TheInst)))
    /\ mc_pc' = [mc_pc EXCEPT !.stage = "expanded"]

McExpandInstImm ==
    /\ mc_pc.stage = "expand"
    /\ McBecomes(Expanded("expand_inst_imm", ExpandInstImm(TheMcBuilder, TheInst)))
    /\ mc_pc' = [mc_pc EXCEPT !.stage = "expanded"]

McExpandStackOperandLoadStore ==
    /\ mc_pc.stage = "expand"
    /\ McBecomes(Expanded("expand_stack_operand_load_store",
                          ExpandStackOperandLoadStore(TheMcBuilder, TheInst)))
    /\ mc_pc' = [mc_pc EXCEPT !.stage = "expanded"]

McExpandStackOperandLoadStoreIp ==
    /\ mc_pc.stage = "expand"
    /\ McBecomes(Expanded("expand_stack_operand_load_store_ip",
                          ExpandStackOperandLoadStoreIp(TheMcBuilder, TheInst)))
    /\ mc_pc' = [mc_pc EXCEPT !.stage = "expanded"]

NextExpand ==
    \/ McExpandBinOp
    \/ McExpandCmpImm
    \/ McExpandInstImm
    \/ McExpandStackOperandLoadStore
    \/ McExpandStackOperandLoadStoreIp

SpecExpand == InitExpand /\ [][NextExpand]_vars

\* the stack operand of a load or store, and the instruction with another
\* operand in its place
MemOps == {"LDR", "STR", "VLDR", "VSTR"}
AddrIndex(inst) == IF inst.op \in {"STR", "VSTR"} THEN 2 ELSE 1
WithAddr(inst, op) == [inst EXCEPT !.uses[AddrIndex(inst)] = op]

\* C23: expand_stack_operand_load_store on an LDR, STR, VLDR or VSTR of a
\* stack operand never fails; when the offset fits it returns the instruction
\* alone and unchanged, and when it does not fit it returns a load of the
\* offset into a vreg, an ADD to fp (SelfArg), an ADD to sp (CallParam) or a
\* SUB from fp (Local and Spill) into a second vreg, and the instruction with
\* that vreg for its address.
C23_StackOperandExpanded ==
    \A i \in McEvents("expand_stack_operand_load_store") :
        LET inst == mc_log[i].inst
            so == inst.uses[AddrIndex(inst)]
            out == asm_bbs[1].insts
        IN  inst.op \in MemOps =>
                /\ failure = "none"
                /\ IF IsImmFit(inst, so)
                   THEN out = <<inst>> /\ vreg_idx = mc_log[i].vreg_idx
                   ELSE /\ Len(out) = 3
                        /\ LET tmp == out[1].defs[1]
                               tmp2 == out[2].defs[1]
                           IN  /\ IsVirtReg(tmp) /\ IsVirtReg(tmp2)
                               /\ out[1] = MovInst(tmp, Imm(so[2]))
                               /\ out[2] = BinOpInst(IF so[3] \in {"SelfArg", "CallParam"}
                                                     THEN "ADD" ELSE "SUB",
                                                     tmp2,
                                                     IF so[3] = "CallParam" THEN RegSp ELSE RegFp,
                                                     tmp)
                               /\ out[3] = WithAddr(inst, tmp2)

\* the register a load writes or a store reads
DataReg(inst) == IF inst.op \in {"STR", "VSTR"} THEN inst.uses[1] ELSE inst.defs[1]

\* C24: expand_stack_operand_load_store_ip on an LDR, STR, VLDR or VSTR leaves
\* the vreg counter as it was; it fails exactly when the offset of the stack
\* operand does not fit and the data register is not a physical integer or
\* VFP register; and every instruction it puts before the given one defines
\* ip and nothing else.
C24_IpExpansionFrame ==
    \A i \in McEvents("expand_stack_operand_load_store_ip") :
        LET inst == mc_log[i].inst
            so == inst.uses[AddrIndex(inst)]
            out == asm_bbs[1].insts
        IN  inst.op \in MemOps =>
                /\ vreg_idx = mc_log[i].vreg_idx
                /\ failure # "none" <=>
                       (~IsImmFit(inst, so) /\ DataReg(inst)[1] \notin {"IntReg", "VfpReg"})
                /\ failure = "none" =>
                       /\ Last(out) = WithAddr(inst, IF IsImmFit(inst, so) THEN so ELSE RegIp)
                       /\ IsImmFit(inst, so) => Len(out) = 1
                       /\ \A k \in 1..(Len(out) - 1) : out[k].defs = <<RegIp>>

\* an LDR into a physical register whose offset did not fit was expanded
\* through ip
C24_Witness ==
    \E i \in McEvents("expand_stack_operand_load_store_ip") :
        /\ mc_log[i].inst.op = "LDR"
        /\ ~IsImmFit(mc_log[i].inst, mc_log[i].inst.uses[1])
        /\ mc_log[i].inst.uses[1][3] = "Spill"
        /\ failure = "none"
        /\ Len(asm_bbs[1].insts) = 3
        /\ asm_bbs[1].insts[2] = BinOpInst("SUB", RegIp, RegFp, RegIp)

\* an ARM operand2 immediate: a value of 8 bits rotated by an even number of
\* bits within 32 (the values drawn are below 2^31)
FitsOperand2(v) ==
    \/ v < 256
    \/ \E r \in 1..15 :
          LET hi == v \div 2^(32 - 2 * r)
              low == v % 2^(32 - 2 * r)
          IN  hi <= 255 /\ low <= (255 - hi) \div 2^(2 * r)

\* operand new of the expanded instruction stands for operand old: old itself,
\* or, where old is an immediate, a vreg that was not handed out before the
\* call and that one of the instructions put in front loads with old
LoadedFrom(old, new, out, idx) ==
    \/ new = old
    \/ /\ IsImm(old)
       /\ IsVirtReg(new) /\ new[2] >= idx
       /\ \E k \in 1..(Len(out) - 1) : out[k] = MovInst(new, old)

\* C22: the immediate expansions do not fail, and they leave the instruction
\* last with operands that stand for the given ones: after expand_bin_op the
\* left operand is no immediate and the right operand is an immediate only
\* under ADD or SUB and only if it can be encoded; after expand_cmp_imm the
\* first operand is no immediate and the second only if it can be encoded;
\* after expand_inst_imm no use is an immediate.
C22_ImmediatesExpanded ==
    \A i \in DOMAIN mc_log :
        LET inst == mc_log[i].inst
            out == asm_bbs[1].insts
            new == Last(out)
            Same == /\ failure = "none"
                    /\ [new EXCEPT !.uses = inst.uses] = inst
                    /\ Len(new.uses) = Len(inst.uses)
                    /\ \A k \in DOMAIN inst.uses :
                          /\ LoadedFrom(inst.uses[k], new.uses[k], out, mc_log[i].vreg_idx)
                          /\ \A l \in DOMAIN inst.uses :
                                (k # l /\ IsImm(inst.uses[k]) /\ ~IsImm(new.uses[k]))
                                    => new.uses[k] # new.uses[l]
        IN  /\ (mc_log[i].ev = "expand_bin_op" /\ inst.op \in BinaryOps) =>
                  /\ Same
                  /\ ~IsImm(new.uses[1])
                  /\ IsImm(new.uses[2]) =>
                        new.op \in {"ADD", "SUB"} /\ FitsOperand2(new.uses[2][2])
            /\ (mc_log[i].ev = "expand_cmp_imm" /\ inst.op = "CMP") =>
                  /\ Same
                  /\ ~IsImm(new.uses[1])
                  /\ IsImm(new.uses[2]) => FitsOperand2(new.uses[2][2])
            /\ mc_log[i].ev = "expand_inst_imm" =>
                  /\ Same
                  /\ \A k \in DOMAIN new.uses : ~IsImm(new.uses[k])

\* a MUL of two immediates got both of them loaded into fresh vregs
C22_Witness ==
    \E i \in McEvents("expand_bin_op") :
        /\ mc_log[i].inst.op = "MUL"
        /\ mc_log[i].inst.uses = <<Imm(255), Imm(0)>>
        /\ Len(asm_bbs[1].insts) = 3
        /\ Last(asm_bbs[1].insts).uses = <<VirtReg(2), VirtReg(3)>>

(***************************************************************************)
(* SpecGep: the lowering of one GEP.  The function is                      *)
(*   f(a, i, j):  B1:  p = gep a, indices;  ret                            *)
(* where a points to an array of ints of one or two dimensions and every   *)
(* index is a constant 0..MaxIndex or one of the parameters i and j.  The  *)
(* arena holds a, i, j at 1..3, the constants behind them, then f, its     *)
(* block, the GEP and the Return.                                          *)
(***************************************************************************)
MaxIndex == 2

GepIr ==
    [a |-> 1, i |-> 2, j |-> 3, f |-> MaxIndex + 5, bb |-> MaxIndex + 6,
     gep |-> MaxIndex + 7, ret |-> MaxIndex + 8]
ConstId(n) == 4 + n

\* Type::get_size in bytes and ArrayType.dims
SizeOf(ty) == 4 * Capacity(ty)
RECURSIVE DimsOf(_)
DimsOf(ty) == IF ty.t = "Array" THEN <<ty.size>> \o DimsOf(ty.element_type) ELSE <<>>

\* the value arena; GEPInst.base, the type the indices walk, is kept in tag
GepModule(base, indices) ==
    [id \in 1..GepIr.ret |->
        IF id \in {GepIr.a, GepIr.i, GepIr.j} THEN Value("Variable", "", <<>>, <<>>, "")
        ELSE IF id < GepIr.f THEN Value("Const", "", <<id - ConstId(0)>>, <<>>, "")
        ELSE IF id = GepIr.f
        THEN Value("Function", "", <<GepIr.a, GepIr.i, GepIr.j>>, <<GepIr.bb>>, "")
        ELSE IF id = GepIr.bb
        THEN Value("BasicBlock", "", <<>>, <<GepIr.gep, GepIr.ret>>, "")
        ELSE IF id = GepIr.gep THEN InstValue("Gep", <<GepIr.a>> \o indices, base)
        ELSE InstValue("Return", <<>>, "")]

RECURSIVE SeqsUpTo(_, _)
\* the sequences over S of length 1..n
SeqsUpTo(S, n) ==
    IF n = 0 THEN {}
    ELSE SeqsUpTo(S, n - 1) \cup [1..n -> S]

GepBases == {ArrayTy(2, IntTy), ArrayTy(2, ArrayTy(3, IntTy))}
GepIndices(base) ==
    SeqsUpTo({ConstId(n) : n \in 0..MaxIndex} \cup {GepIr.i, GepIr.j}, Len(DimsOf(base)) + 1)

\* McBuilder::gep_make_add; returns the vreg that holds prev + offset
GepMakeAdd(m, prev, offset, asm_bb_id) ==
    LET m1 == GetVreg(m)
        target == m1.ret
        m2 == ExpandBinOp(m1, BinOpInst("ADD", target, prev, offset))
    IN  [PushInsts(m2, asm_bb_id, m2.ret) EXCEPT !.ret = target]

\* base_size / dims.remove(0), or base_size set as invalid
NextSize(base_size, dims) ==
    [size |-> IF dims # <<>> THEN base_size.size \div Head(dims) ELSE 0,
     valid |-> dims # <<>>]

\* McBuilder::calc_gep, the loop over the indices and what follows it
RECURSIVE CalcGepIndices(_, _, _, _, _, _, _, _, _)
CalcGepIndices(m, indices, current, offset, base_size, dims, ssa_func_id, asm_bb_id, inst_id) ==
    IF McFailed(m) THEN m
    ELSE IF indices = <<>>
    THEN LET m1 == IF offset # 0 THEN GepMakeAdd(m, current, Imm(offset), asm_bb_id)
                   ELSE [m EXCEPT !.ret = current]
         IN  VregMapInsert(m1, inst_id, m1.ret)
    ELSE LET get_idx == Head(indices)
             val == values[get_idx]
         IN  IF val.kind = "Const"
             THEN IF ~base_size.valid
                  THEN McPanic(m, "assertion failed: base_size != i64::MIN")
                  ELSE CalcGepIndices(m, Tail(indices), current,
                                      offset + base_size.size * val.opnds[1],
                                      NextSize(base_size, dims),
                                      IF dims # <<>> THEN Tail(dims) ELSE dims,
                                      ssa_func_id, asm_bb_id, inst_id)
             ELSE LET m1 == IF offset # 0
                            THEN GepMakeAdd(m, current, Imm(offset), asm_bb_id)
                            ELSE [m EXCEPT !.ret = current]
                      current1 == m1.ret
                      m2 == GetVreg(m1)
                      target == m2.ret
                      m3 == ConvertValue(m2, get_idx, ssa_func_id, asm_bb_id)
                      m4 == ExpandBinOp(m3, BinOpInst("MUL", target, m3.ret,
                                                      Imm(base_size.size)))
                      m5 == PushInsts(m4, asm_bb_id, m4.ret)
                      m6 == GepMakeAdd(m5, current1, target, asm_bb_id)
                  IN  CalcGepIndices(m6, Tail(indices), m6.ret, 0,
                                     NextSize(base_size, dims),
                                     IF dims # <<>> THEN Tail(dims) ELSE dims,
                                     ssa_func_id, asm_bb_id, inst_id)

\* McBuilder::calc_gep
CalcGep(m, ssa_func_id, asm_bb_id, addr, inst_id) ==
    LET gep_inst == values[inst_id]
    IN  CalcGepIndices(m, Tail(gep_inst.opnds), addr, 0,
                       [size |-> SizeOf(gep_inst.tag), valid |-> TRUE],
                       DimsOf(gep_inst.tag), ssa_func_id, asm_bb_id, inst_id)

\* McBuilder::visit_non_term_inst, the GEP arm
VisitGep(m, ssa_func_id, inst_id, asm_bb_id) ==
    LET m1 == ConvertValue(m, values[inst_id].opnds[1], ssa_func_id, asm_bb_id)
    IN  CalcGep(m1, ssa_func_id, asm_bb_id, m1.ret, inst_id)

\* McBuilder::new on the module of such a function
InitGep ==
    /\ \E base \in GepBases : \E indices \in GepIndices(base) :
          values = GepModule(base, indices)
    /\ functions = <<GepIr.f>>
    /\ global_variables = <<>>
    /\ sym2def = <<>>
    /\ cur_func = 0
    /\ cur_bb = 0
    /\ loop_stack = <<>>
    /\ failure = "none"
    /\ syms = 0
    /\ log = <<>>
    /\ ast = [var_decls |-> <<>>, func_decls |-> <<>>]
    /\ nodes = 0
    /\ pc = "done"
    /\ asm_values = <<>>
    /\ globals = <<>>
    /\ bss_globals = <<>>
    /\ asm_bbs = <<>>
    /\ bb_map = <<>>
    /\ vreg_map = <<>>
    /\ vreg_idx = 0
    /\ mc_log = <<>>
    /\ mc_pc = [stage |-> "start", bb |-> 0, inst |-> 0]

\* build_block: a GEP goes to visit_non_term_inst
McVisitGep ==
    /\ AtInst
    /\ IsInst(values[SsaInst], "Gep")
    /\ McBecomes(VisitGep(TheMcBuilder, SsaFunc, SsaInst, bb_map[SsaBb]))
    /\ mc_pc' = [mc_pc EXCEPT !.inst = @ + 1]

NextGep ==
    \/ McStart
    \/ McVisitGep

SpecGep == InitGep /\ [][NextGep]_vars

\* the contents of the registers after a run of Mov, ADD, SUB and MUL
RegVal(env, op) == IF IsImm(op) THEN op[2] ELSE env[op]
ExecInst(env, inst) ==
    IF inst.op \notin {"Mov", "ADD", "SUB", "MUL"} THEN env
    ELSE LET v == CASE inst.op = "Mov" -> RegVal(env, inst.uses[1])
                    [] inst.op = "ADD" -> RegVal(env, inst.uses[1]) + RegVal(env, inst.uses[2])
                    [] inst.op = "SUB" -> RegVal(env, inst.uses[1]) - RegVal(env, inst.uses[2])
                    [] inst.op = "MUL" -> RegVal(env, inst.uses[1]) * RegVal(env, inst.uses[2])
         IN  [r \in DOMAIN env \cup {inst.defs[1]} |-> IF r = inst.defs[1] THEN v ELSE env[r]]
RECURSIVE ExecInsts(_, _)
ExecInsts(env, insts) ==
    IF insts = <<>> THEN env ELSE ExecInsts(ExecInst(env, Head(insts)), Tail(insts))

\* what the register recorded for the GEP holds when the block has run with
\* a, i and j in the registers of the parameters
GepResult(a, i, j) ==
    LET env == [r \in {vreg_map[GepIr.a], vreg_map[GepIr.i], vreg_map[GepIr.j]} |->
                   IF r = vreg_map[GepIr.a] THEN a ELSE IF r = vreg_map[GepIr.i] THEN i ELSE j]
    IN  RegVal(ExecInsts(env, asm_bbs[1].insts), vreg_map[GepIr.gep])

\* sum of index * stride, the stride of the first index being the size of the
\* type and that of the next one the stride divided by the dimension
RECURSIVE GepOffset(_, _, _, _, _)
GepOffset(indices, stride, dims, i, j) ==
    IF indices = <<>> THEN 0
    ELSE LET idx == Head(indices)
             n == IF idx = GepIr.i THEN i ELSE IF idx = GepIr.j THEN j ELSE values[idx].opnds[1]
         IN  n * stride
             + (IF Tail(indices) = <<>> THEN 0
                ELSE GepOffset(Tail(indices), stride \div Head(dims), Tail(dims), i, j))

\* the runs of constant indices, unbroken by a variable index, whose offsets
\* do not add up to 0 (acc: the offset of the run so far)
RECURSIVE ConstRuns(_, _, _, _)
ConstRuns(indices, stride, dims, acc) ==
    IF indices = <<>> THEN (IF acc # 0 THEN 1 ELSE 0)
    ELSE LET idx == Head(indices)
             next == IF dims # <<>> THEN stride \div Head(dims) ELSE 0
             rest == IF dims # <<>> THEN Tail(dims) ELSE dims
         IN  IF values[idx].kind = "Const"
             THEN ConstRuns(Tail(indices), next, rest, acc + stride * values[idx].opnds[1])
             ELSE (IF acc # 0 THEN 1 ELSE 0) + ConstRuns(Tail(indices), next, rest, 0)

\* the instructions of the lowered GEP: the ADDs of a constant (an immediate,
\* or a register the instruction before loads with one), all ADDs, the MULs
GepInsts(op) == {k \in DOMAIN asm_bbs[1].insts : asm_bbs[1].insts[k].op = op}
ConstAdds ==
    {k \in GepInsts("ADD") :
        LET insts == asm_bbs[1].insts
        IN  \/ IsImm(insts[k].uses[2])
            \/ /\ k > 1
               /\ insts[k - 1].op = "Mov"
               /\ insts[k - 1].defs = <<insts[k].uses[2]>>
               /\ IsImm(insts[k - 1].uses[1])}
VarIndices ==
    {k \in 2..Len(values[GepIr.gep].opnds) : values[values[GepIr.gep].opnds[k]].kind # "Const"}
GepLowered == GepIr.gep \in DOMAIN vreg_map

\* the value part of C26 and the count of MULs and ADDs per variable index
GepValueAndMuls ==
    LET gep == values[GepIr.gep]
    IN  /\ failure = "none"
        /\ \A a \in {1000} : \A i, j \in {0, 1, 3} :
              GepResult(a, i, j)
                  = a + GepOffset(Tail(gep.opnds), SizeOf(gep.tag), DimsOf(gep.tag), i, j)
        /\ Cardinality(GepInsts("MUL")) = Cardinality(VarIndices)
        /\ Cardinality(GepInsts("ADD") \ ConstAdds) = Cardinality(VarIndices)

\* C26, folding run by run: the register recorded for a lowered GEP holds
\* A + sum_k i_k * stride_k; each variable index gives one MUL and one ADD;
\* the constant indices are folded run by run: every run of constant indices
\* between variable indices whose offsets do not add up to 0 gives one ADD of
\* a constant, and no other ADD of a constant is emitted.
C26_GepFoldsRuns ==
    GepLowered =>
        /\ GepValueAndMuls
        /\ Cardinality(ConstAdds)
              = ConstRuns(Tail(values[GepIr.gep].opnds), SizeOf(values[GepIr.gep].tag),
                          DimsOf(values[GepIr.gep].tag), 0)

\* C26 (as stated): as above, but with all constant indices of the GEP folded
\* into one offset: at most one ADD of a constant, and none when the constant
\* indices add up to offset 0.
C26_GepFoldsAll ==
    GepLowered =>
        /\ GepValueAndMuls
        /\ Cardinality(ConstAdds) <= 1
        /\ GepOffset(Tail(values[GepIr.gep].opnds), SizeOf(values[GepIr.gep].tag),
                     DimsOf(values[GepIr.gep].tag), 0, 0) = 0
              => ConstAdds = {}

\* a GEP with a constant, a variable and a constant index has been lowered
C26_Witness ==
    /\ GepLowered
    /\ failure = "none"
    /\ Tail(values[GepIr.gep].opnds) = <<ConstId(1), GepIr.i, ConstId(2)>>
    /\ Cardinality(ConstAdds) = 2
    /\ Cardinality(GepInsts("MUL")) = 1

====
